---- MODULE Spec2Model ----
(***************************************************************************)
(* Model of Belos' projected least-squares problem and its Givens updater  *)
(* (packages/belos/src/BelosProjectedLeastSquaresSolver.hpp).              *)
(*                                                                         *)
(* Scalars are integers.  Cosines and sines are fixed-point numbers with   *)
(* Unit standing for 1; every product with a cosine or sine is rounded     *)
(* (floor) back to an integer, so that the arithmetic is inexact the way   *)
(* floating-point arithmetic is.                                           *)
(***************************************************************************)
EXTENDS Integers, Sequences, FiniteSets, TLC

VARIABLES
  H, R, y, z, theCosines, theSines,  \* the fields of the problem
  op,         \* the last call: its name, arguments, return value and error
  requested,  \* the largest maximum-iteration count requested so far
  steps,      \* the number of calls made
  test        \* the locals of testUpdateColumn besides the Givens state

vars == <<H, R, y, z, theCosines, theSines, op, requested, steps, test>>

\* ------------------------------------------------------------------ bounds

\* Largest maximum-iteration count a caller passes.
MaxIters == 2

\* Number of operations in one behaviour.
MaxSteps == 4

\* The fixed-point representation of 1 for cosines and sines.
Unit == 100

\* The upper Hessenberg matrices the caller writes into H, by shape: 3-4-5
\* columns with a negative subdiagonal, a zero subdiagonal, a zero diagonal,
\* and the matrix [[2,1],[1,3],[0,1]] continued.
Patterns == {"pythagorean", "breakdown", "zerodiag", "example"}

\* Entry (i, j), i <= j+1, of the matrix of the given shape.
HEntry(pat, i, j) ==
  CASE pat = "pythagorean" -> (IF i = j + 1 THEN -4 ELSE 3)
    [] pat = "breakdown" -> (IF i = j + 1 THEN 0 ELSE -4)
    [] pat = "zerodiag" -> (IF i = j THEN 0 ELSE i + 1)
    [] pat = "example" -> (IF i = j THEN 2 + j ELSE 1)

\* Initial residual norms the caller passes (a negative one included).
Betas == {-1, 0, 5}

\* What an unchecked out-of-range read of a rotation array may yield.
Garbage == {0, 7}

\* ----------------------------------------------------------------- scalars

Abs(a) == IF a < 0 THEN -a ELSE a

Sign(a) == IF a < 0 THEN -1 ELSE 1

\* Rounded quotient a / b, b # 0 (floor).
Quot(a, b) == IF b > 0 THEN a \div b ELSE (-a) \div (-b)

\* Rounded square root of a >= 0 (floor).
Sqrt(a) == CHOOSE n \in 0..a : n * n <= a /\ (n + 1) * (n + 1) > a

\* STS::magnitude
magnitude(a) == Abs(a)

\* BLAS _ROTG: the rotation (c, s) that maps [a; b] to [r; 0].
ROTG(a, b) ==
  LET roe == IF Abs(a) > Abs(b) THEN a ELSE b
      scale == Abs(a) + Abs(b)
      r == Sign(roe) * Sqrt(a * a + b * b)
  IN IF scale = 0
       THEN [r |-> 0, c |-> Unit, s |-> 0]
       ELSE [r |-> r, c |-> Quot(Unit * a, r), s |-> Quot(Unit * b, r)]

\* BLAS _ROT on one pair: [x; y] := [c x + s y; c y - s x].
ROT(x, yv, c, s) ==
  [x |-> Quot(c * x + s * yv, Unit), y |-> Quot(c * yv - s * x, Unit)]

\* ---------------------------------------------------------------- matrices

\* Teuchos::SerialDenseMatrix (numRows, numCols): zero-initialised.
Matrix(nr, nc) ==
  [nr |-> nr, nc |-> nc, a |-> [i \in 0..(nr - 1) |-> [j \in 0..(nc - 1) |-> 0]]]

\* SerialDenseMatrix::putScalar
putScalar(A, v) ==
  [A EXCEPT !.a = [i \in 0..(A.nr - 1) |-> [j \in 0..(A.nc - 1) |-> v]]]

\* SerialDenseMatrix::reshape: new dimensions, the overlapping block kept,
\* every other entry zero.
reshape(A, nr, nc) ==
  [nr |-> nr, nc |-> nc,
   a |-> [i \in 0..(nr - 1) |-> [j \in 0..(nc - 1) |->
            IF i < A.nr /\ j < A.nc THEN A.a[i][j] ELSE 0]]]

\* A(i,j) = v
Put(A, i, j, v) == [A EXCEPT !.a[i][j] = v]

\* A with entry (i, j) given by f[i][j] on its own index set.
Entries(A, f) == [A EXCEPT !.a = f]

\* Teuchos::Array<Scalar> (n): n zero entries, indexed from 0.
Array(n) == [i \in 0..(n - 1) |-> 0]

\* Array::size
size(arr) == Cardinality(DOMAIN arr)

IsZero(A) == \A i \in 0..(A.nr - 1) : \A j \in 0..(A.nc - 1) : A.a[i][j] = 0

\* ----------------------------------------------------------- problem state

\* The fields of a ProjectedLeastSquaresProblem, as one record.
Problem ==
  [H |-> H, R |-> R, y |-> y, z |-> z,
   theCosines |-> theCosines, theSines |-> theSines]

SetProblem(q) ==
  /\ H' = q.H
  /\ R' = q.R
  /\ y' = q.y
  /\ z' = q.z
  /\ theCosines' = q.theCosines
  /\ theSines' = q.theSines

\* ProjectedLeastSquaresProblem (maxNumIterations)
NewProblem(maxNumIterations) ==
  [H |-> Matrix(maxNumIterations + 1, maxNumIterations),
   R |-> Matrix(maxNumIterations + 1, maxNumIterations),
   y |-> Matrix(maxNumIterations + 1, 1),
   z |-> Matrix(maxNumIterations + 1, 1),
   theCosines |-> Array(maxNumIterations + 1),
   theSines |-> Array(maxNumIterations + 1)]

\* reset with step "z.putScalar (zero)" left out.
resetFirstEntryOnly(p, beta) == [p EXCEPT !.z = Put(p.z, 0, 0, beta)]

\* reset that wipes y as well.
resetAlsoY(p, beta) ==
  [p EXCEPT !.z = Put(putScalar(p.z, 0), 0, 0, beta), !.y = putScalar(p.y, 0)]

\* reset (beta): z := beta e_1.  No check of beta.
reset(p, beta) ==
  [p EXCEPT !.z = Put(putScalar(p.z, 0), 0, 0, beta)]

\* growTo that reshapes whether or not the matrix is too small.
growAlways(A, nr, nc) == reshape(A, nr, nc)

\* "if (A.numRows() < nr || A.numCols() < nc) A.reshape (nr, nc)"
growTo(A, nr, nc) == IF A.nr < nr \/ A.nc < nc THEN reshape(A, nr, nc) ELSE A

\* reallocateAndReset that tests "maxNumIterations < 0".
reallocateAndResetLateCheck(p, beta, maxNumIterations) ==
  IF beta < 0 \/ maxNumIterations < 0
    THEN [err |-> "invalid_argument", p |-> p]
    ELSE
      LET m == maxNumIterations
          q == [p EXCEPT !.H = putScalar(growTo(p.H, m + 1, m), 0),
                         !.R = putScalar(growTo(p.R, m + 1, m), 0),
                         !.y = putScalar(growTo(p.y, m + 1, 1), 0),
                         !.z = growTo(p.z, m + 1, 1)]
      IN [err |-> "none", p |-> reset(q, beta)]

\* reallocateAndReset with "R.putScalar (zero)" left out.
reallocateAndResetStaleR(p, beta, maxNumIterations) ==
  IF beta < 0 \/ maxNumIterations <= 0
    THEN [err |-> "invalid_argument", p |-> p]
    ELSE
      LET m == maxNumIterations
          q == [p EXCEPT !.H = putScalar(growTo(p.H, m + 1, m), 0),
                         !.R = growTo(p.R, m + 1, m),
                         !.y = putScalar(growTo(p.y, m + 1, 1), 0),
                         !.z = growTo(p.z, m + 1, 1)]
      IN [err |-> "none", p |-> reset(q, beta)]

\* reallocateAndReset (beta, maxNumIterations): the outcome, err and the
\* problem after it.
reallocateAndReset(p, beta, maxNumIterations) ==
  IF beta < 0 \/ maxNumIterations <= 0
    THEN [err |-> "invalid_argument", p |-> p]
    ELSE
      LET m == maxNumIterations
          q == [p EXCEPT !.H = putScalar(growTo(p.H, m + 1, m), 0),
                         !.R = putScalar(growTo(p.R, m + 1, m), 0),
                         !.y = putScalar(growTo(p.y, m + 1, 1), 0),
                         !.z = growTo(p.z, m + 1, 1)]
      IN [err |-> "none", p |-> reset(q, beta)]

\* --------------------------------------------------------- Givens updater

\* The two ways a build treats an out-of-range index into theCosines or
\* theSines: a checked build throws, an unchecked build reads whatever lies
\* there (g) and loses a write.
Builds == [checked : BOOLEAN, g : Garbage]

\* computeGivensRotation (x, y, theCosine, theSine, result), with _ROTG.
computeGivensRotation(x, yv) == ROTG(x, yv)

\* R_col.assign (H_col): rows 0 .. curCol+1 of column curCol of H copied
\* into R.
CopyColumn(Hm, Rm, curCol) ==
  [Rm EXCEPT !.a = [i \in 0..(Rm.nr - 1) |-> [j \in 0..(Rm.nc - 1) |->
     IF j = curCol /\ i <= curCol + 1 THEN Hm.a[i][j] ELSE Rm.a[i][j]]]]

\* One _ROT of rows j, j+1 of column col of A.
RotateRows(A, j, col, c, s) ==
  LET r == ROT(A.a[j][col], A.a[j + 1][col], c, s)
  IN Put(Put(A, j, col, r.x), j + 1, col, r.y)

\* The loop "for (int j = 0; j < curCol; ++j)" of updateColumnGivens, from
\* j on: the stored rotations applied to column curCol of Rm.  thrown: a
\* checked build met an index outside the arrays.
RECURSIVE ApplyPrevious(_, _, _, _, _, _)
ApplyPrevious(Rm, cosines, sines, curCol, j, build) ==
  IF j >= curCol
    THEN [R |-> Rm, thrown |-> FALSE]
    ELSE IF j \in DOMAIN cosines /\ j \in DOMAIN sines
      THEN ApplyPrevious(RotateRows(Rm, j, curCol, cosines[j], sines[j]),
                         cosines, sines, curCol, j + 1, build)
      ELSE IF build.checked
        THEN [R |-> Rm, thrown |-> TRUE]
        ELSE ApplyPrevious(RotateRows(Rm, j, curCol, build.g, build.g),
                           cosines, sines, curCol, j + 1, build)

\* A store that overwrites every entry of the array.
StoreAll(arr, i, v) == [j \in DOMAIN arr |-> v]

\* theCosines[curCol] = theCosine, in an unchecked build.
Store(arr, i, v) == IF i \in DOMAIN arr THEN [arr EXCEPT ![i] = v] ELSE arr

\* updateColumnGivens with step 4 left out.
ApplyNewRotationSkipped(Rm, curCol, result) == Rm

\* ApplyNewRotation with "R_col(curCol+1, 0) = zero" left out.
ApplyNewRotationNoZero(Rm, curCol, result) == Put(Rm, curCol, curCol, result)

\* Step 4 of updateColumnGivens: R(curCol, curCol) = result and
\* R(curCol+1, curCol) = 0.
ApplyNewRotation(Rm, curCol, result) ==
  Put(Put(Rm, curCol, curCol, result), curCol + 1, curCol, 0)

\* Step 5: _ROT of rows curCol, curCol+1 of every column of z.
RECURSIVE RotateRhs(_, _, _, _, _)
RotateRhs(zm, curCol, c, s, col) ==
  IF col >= zm.nc THEN zm
  ELSE RotateRhs(RotateRows(zm, curCol, col, c, s), curCol, c, s, col + 1)

\* residualNorm reading the row above.
residualNormRowAbove(zm, curCol) == magnitude(zm.a[curCol][0])

\* "return STS::magnitude( z(numRows-1, 0) )", numRows = curCol + 2.
residualNorm(zm, curCol) == magnitude(zm.a[curCol + 1][0])

\* updateColumnGivens without the loop that applies the stored rotations to
\* the new column.
updateColumnGivensNoReplay(p, curCol, build) ==
  LET R2 == CopyColumn(p.H, p.R, curCol)
      rot == computeGivensRotation(R2.a[curCol][curCol], R2.a[curCol + 1][curCol])
      inRange == curCol \in DOMAIN p.theCosines /\ curCol \in DOMAIN p.theSines
      z1 == RotateRhs(p.z, curCol, rot.c, rot.s, 0)
  IN IF build.checked /\ ~inRange
       THEN [p |-> [p EXCEPT !.R = R2], ret |-> 0, err |-> "range_error"]
       ELSE [p |-> [p EXCEPT !.R = ApplyNewRotation(R2, curCol, rot.r),
                             !.z = z1,
                             !.theCosines = Store(p.theCosines, curCol, rot.c),
                             !.theSines = Store(p.theSines, curCol, rot.s)],
             ret |-> residualNorm(z1, curCol),
             err |-> "none"]

\* updateColumnGivens (H, R, y, z, theCosines, theSines, curCol).
updateColumnGivens(p, curCol, build) ==
  LET R1 == CopyColumn(p.H, p.R, curCol)
      prev == ApplyPrevious(R1, p.theCosines, p.theSines, curCol, 0, build)
      R2 == prev.R
      rot == computeGivensRotation(R2.a[curCol][curCol], R2.a[curCol + 1][curCol])
      inRange == curCol \in DOMAIN p.theCosines /\ curCol \in DOMAIN p.theSines
      z1 == RotateRhs(p.z, curCol, rot.c, rot.s, 0)
  IN IF prev.thrown \/ (build.checked /\ ~inRange)
       THEN [p |-> [p EXCEPT !.R = R2], ret |-> 0, err |-> "range_error"]
       ELSE [p |-> [p EXCEPT !.R = ApplyNewRotation(R2, curCol, rot.r),
                             !.z = z1,
                             !.theCosines = Store(p.theCosines, curCol, rot.c),
                             !.theSines = Store(p.theSines, curCol, rot.s)],
             ret |-> residualNorm(z1, curCol),
             err |-> "none"]

\* The loop of updateColumnsGivens from curCol on; it ends at the first
\* column that throws.
RECURSIVE UpdateLoop(_, _, _, _, _)
UpdateLoop(p, curCol, endCol, lastResult, build) ==
  IF curCol > endCol
    THEN [p |-> p, ret |-> lastResult, err |-> "none"]
    ELSE LET one == updateColumnGivens(p, curCol, build)
         IN IF one.err # "none" THEN one
            ELSE UpdateLoop(one.p, curCol + 1, endCol, one.ret, build)

\* updateColumnsGivens with the loop "curCol < endCol".
updateColumnsGivensShort(p, startCol, endCol, build) ==
  IF startCol > endCol
    THEN [p |-> p, ret |-> 0, err |-> "invalid_argument"]
    ELSE UpdateLoop(p, startCol, endCol - 1, 0, build)

\* updateColumnsGivens that tests "startCol > endCol" after its first column.
updateColumnsGivensLateCheck(p, startCol, endCol, build) ==
  IF startCol > endCol
    THEN [p |-> updateColumnGivens(p, startCol, build).p, ret |-> 0,
          err |-> "invalid_argument"]
    ELSE UpdateLoop(p, startCol, endCol, 0, build)

\* updateColumnsGivens (H, R, y, z, theCosines, theSines, startCol, endCol).
updateColumnsGivens(p, startCol, endCol, build) ==
  IF startCol > endCol
    THEN [p |-> p, ret |-> 0, err |-> "invalid_argument"]
    ELSE UpdateLoop(p, startCol, endCol, 0, build)

\* updateColumn with problem.H and problem.R handed over in each other's
\* place.
updateColumnSwapped(p, curCol, build) ==
  LET res == updateColumnGivens([p EXCEPT !.H = p.R, !.R = p.H], curCol, build)
  IN [res EXCEPT !.p.H = res.p.R, !.p.R = res.p.H]

\* solver.updateColumn (problem, curCol)
updateColumn(p, curCol, build) == updateColumnGivens(p, curCol, build)

\* solver.updateColumns (problem, startCol, endCol)
updateColumns(p, startCol, endCol, build) ==
  updateColumnsGivens(p, startCol, endCol, build)

\* Whether column curCol lies inside H, R and z (the caller's obligation).
ColumnInside(p, curCol) ==
  /\ 0 <= curCol
  /\ curCol < p.H.nc /\ curCol + 1 < p.H.nr
  /\ curCol < p.R.nc /\ curCol + 1 < p.R.nr
  /\ curCol + 1 < p.z.nr /\ p.z.nc >= 1

\* Whether updating column curCol stays inside the rotation arrays.
RotationsInside(p, curCol) ==
  curCol < size(p.theCosines) /\ curCol < size(p.theSines)

\* The builds that matter for a call that touches columns up to curCol: one
\* when every index is in range.
BuildsFor(p, curCol) ==
  IF RotationsInside(p, curCol) THEN {[checked |-> TRUE, g |-> 0]} ELSE Builds

\* ------------------------------------------------------- triangular solve

\* What a quotient by a zero diagonal entry yields (an infinity or a NaN),
\* and every result computed from one.
NonFinite == -1000000

Div(a, b) == IF a = NonFinite \/ b = NonFinite \/ b = 0 THEN NonFinite ELSE Quot(a, b)

Mul(a, b) == IF a = NonFinite \/ b = NonFinite THEN NonFinite ELSE a * b

Sub(a, b) == IF a = NonFinite \/ b = NonFinite THEN NonFinite ELSE a - b

\* mat_type (Teuchos::View, A, nr, nc): the leading nr by nc block of A.
View(A, nr, nc) ==
  [nr |-> nr, nc |-> nc, a |-> [i \in 0..(nr - 1) |-> [j \in 0..(nc - 1) |-> A.a[i][j]]]]

\* A with its leading block overwritten by V, as after writing through a view.
WriteView(A, V) ==
  [A EXCEPT !.a = [i \in 0..(A.nr - 1) |-> [j \in 0..(A.nc - 1) |->
     IF i < V.nr /\ j < V.nc THEN V.a[i][j] ELSE A.a[i][j]]]]

\* The inner loop of _TRSM: x(i, col) -= x(k, col) * R(i, k) for i < k.
RECURSIVE Eliminate(_, _, _, _, _)
Eliminate(x, Rv, k, col, i) ==
  IF i >= k THEN x
  ELSE Eliminate(Put(x, i, col, Sub(x.a[i][col], Mul(x.a[k][col], Rv.a[i][k]))),
                 Rv, k, col, i + 1)

\* _TRSM (left, upper, no transpose, non-unit) on column col of x, from
\* row k up to row 0.
RECURSIVE BackSubstitute(_, _, _, _)
BackSubstitute(x, Rv, k, col) ==
  IF k < 0 THEN x
  ELSE IF x.a[k][col] = 0
    THEN BackSubstitute(x, Rv, k - 1, col)
    ELSE BackSubstitute(
           Eliminate(Put(x, k, col, Div(x.a[k][col], Rv.a[k][k])), Rv, k, col, 0),
           Rv, k - 1, col)

\* blas.TRSM (LEFT_SIDE, UPPER_TRI, NO_TRANS, NON_UNIT_DIAG, N, NRHS, ...)
RECURSIVE TRSM(_, _, _, _, _)
TRSM(x, Rv, N, NRHS, col) ==
  IF col >= NRHS THEN x
  ELSE TRSM(BackSubstitute(x, Rv, N - 1, col), Rv, N, NRHS, col + 1)

\* SerialDenseMatrix::assign: the entries of Source copied when it has the
\* shape of A; A left as it is otherwise.
assign(A, Source) ==
  IF A.nr = Source.nr /\ A.nc = Source.nc THEN Entries(A, Source.a) ELSE A

\* The status codes (INFO) a LAPACK routine hands back: zero, the number of
\* an illegal argument negated, or the sign of a failed computation.
Infos == {-1, 0, 1}

\* What LAPACK reports during one call of a kernel, to its workspace query
\* and to its computation; at most one of the two fails.
Statuses ==
  {st \in [query : Infos, compute : Infos] : st.query = 0 \/ st.compute = 0}

NoFault == [query |-> 0, compute |-> 0]

\* The value of LWORK that asks a LAPACK routine for its workspace size.
WorkspaceQuery == -1

\* R(k, i) x(i, col) + ... + R(k, N-1) x(N-1, col).
RECURSIVE RowDot(_, _, _, _, _, _)
RowDot(Rv, x, k, col, i, N) ==
  IF i >= N THEN 0
  ELSE Rv.a[k][i] * x.a[i][col] + RowDot(Rv, x, k, col, i + 1, N)

\* The solve of _LATRS ('U', 'N', 'N') on column col of x, from row k up to
\* row 0: at a zero diagonal entry R(k, k) the scale factor becomes zero and
\* x becomes the unit vector e_k, the rows above continuing a solution of
\* R x = 0.
RECURSIVE LatrsRows(_, _, _, _, _, _)
LatrsRows(x, Rv, N, k, col, scale) ==
  IF k < 0 THEN [x |-> x, scale |-> scale]
  ELSE IF Rv.a[k][k] = 0
    THEN LatrsRows(Entries(x, [i \in 0..(x.nr - 1) |-> [j \in 0..(x.nc - 1) |->
                     IF j # col \/ i >= N THEN x.a[i][j]
                     ELSE IF i = k THEN 1 ELSE 0]]),
                   Rv, N, k - 1, col, 0)
    ELSE LatrsRows(Put(x, k, col,
                       Quot(x.a[k][col] - RowDot(Rv, x, k, col, k + 1, N),
                            Rv.a[k][k])),
                   Rv, N, k - 1, col, scale)

\* lapack.LATRS ('U', 'N', 'N', NORMIN, N, R, LDR, &x(0,j), &scaleFactor,
\* cnorm, &info) with INFO zero.
LATRS(x, Rv, N, col) == LatrsRows(x, Rv, N, N - 1, col, 1)

\* |R(0, j)| + ... + |R(j-1, j)|, the norm of the part of column j above
\* the diagonal that _LATRS leaves in cnorm[j].
RECURSIVE OffDiagonalNorm(_, _, _)
OffDiagonalNorm(Rv, j, i) ==
  IF i >= j THEN 0 ELSE Abs(Rv.a[i][j]) + OffDiagonalNorm(Rv, j, i + 1)

\* The loop over the columns of x under robustness 1, from column j on.
\* found: some call left a zero scale factor.
RECURSIVE LatrsColumns(_, _, _, _, _)
LatrsColumns(x, Rv, N, j, found) ==
  IF j >= x.nc THEN [x |-> x, found |-> found]
  ELSE LET one == LATRS(x, Rv, N, j)
       IN LatrsColumns(one.x, Rv, N, j + 1, found \/ one.scale = 0)

\* The count of the zero diagonal entries of R, cnorm left aside.
RECURSIVE ZeroColumnsDiagonalOnly(_, _, _, _)
ZeroColumnsDiagonalOnly(Rv, N, j, called) ==
  IF j >= N THEN 0
  ELSE (IF Rv.a[j][j] = 0 THEN 1 ELSE 0)
       + ZeroColumnsDiagonalOnly(Rv, N, j + 1, called)

\* The number of j < N with R(j, j) zero and (j = 0 or cnorm[j] zero),
\* counted from column j on; cnorm is all zero when _LATRS was never called.
RECURSIVE ZeroColumns(_, _, _, _)
ZeroColumns(Rv, N, j, called) ==
  IF j >= N THEN 0
  ELSE (IF Rv.a[j][j] = 0 /\
           (j = 0 \/ (IF called THEN OffDiagonalNorm(Rv, j, 0) ELSE 0) = 0)
          THEN 1 ELSE 0)
       + ZeroColumns(Rv, N, j + 1, called)

\* The squared norm of column col of R x - b, R being N by N.
RECURSIVE Residual2(_, _, _, _, _, _)
Residual2(Rv, x, b, N, col, i) ==
  IF i >= N THEN 0
  ELSE (RowDot(Rv, x, i, col, 0, N) - b.a[i][col])
         * (RowDot(Rv, x, i, col, 0, N) - b.a[i][col])
       + Residual2(Rv, x, b, N, col, i + 1)

\* The squared norm of rows 0..N-1 of column col of x.
RECURSIVE Norm2(_, _, _, _)
Norm2(x, N, col, i) ==
  IF i >= N THEN 0 ELSE x.a[i][col] * x.a[i][col] + Norm2(x, N, col, i + 1)

\* Largest magnitude of an entry of a candidate solution.
Box == 3

\* x with rows 0..N-1 of column col replaced by v.
WithColumn(x, N, col, v) ==
  Entries(x, [i \in 0..(x.nr - 1) |-> [j \in 0..(x.nc - 1) |->
                IF j = col /\ i < N THEN v[i] ELSE x.a[i][j]]])

\* Whether column col of x is a minimum-norm solution of min ||R x - b||:
\* no candidate has a smaller residual, and none with the same residual a
\* smaller norm.
IsMinimumNorm(x, Rv, b, N, col) ==
  \A v \in [0..(N - 1) -> (-Box)..Box] :
    LET w == WithColumn(x, N, col, v)
    IN \/ Residual2(Rv, w, b, N, col, 0) > Residual2(Rv, x, b, N, col, 0)
       \/ /\ Residual2(Rv, w, b, N, col, 0) = Residual2(Rv, x, b, N, col, 0)
          /\ Norm2(w, N, col, 0) >= Norm2(x, N, col, 0)

\* The determinant of the rows rs and the columns cs of A (sequences of
\* indices of one length), expanded along the first row; c is the column of
\* the expansion and sign the sign of its term.
RECURSIVE Det(_, _, _, _, _)
Det(A, rs, cs, c, sign) ==
  IF Len(rs) = 0 THEN 1
  ELSE IF c > Len(cs) THEN 0
  ELSE sign * A.a[rs[1]][cs[c]]
            * Det(A, Tail(rs), SubSeq(cs, 1, c - 1) \o SubSeq(cs, c + 1, Len(cs)),
                  1, 1)
       + Det(A, rs, cs, c + 1, -sign)

\* The increasing sequences of k indices below N.
Increasing(k, N) ==
  {q \in [1..k -> 0..(N - 1)] : \A i \in 1..(k - 1) : q[i] < q[i + 1]}

\* The rank of the leading N by N block of A: the largest order of a minor
\* that is not zero.
MatrixRank(A, N) ==
  CHOOSE k \in 0..N :
    /\ \E rs \in Increasing(k, N) : \E cs \in Increasing(k, N) :
         Det(A, rs, cs, 1, 1) # 0
    /\ \A m \in (k + 1)..N :
         \A rs \in Increasing(m, N) : \A cs \in Increasing(m, N) :
           Det(A, rs, cs, 1, 1) = 0

\* lapack.GELSS (N, N, NRHS, A, LDA, x, LDX, S, rcond, &rank, &work, lwork,
\* rwork, &info) with INFO zero.  Called with lwork = -1 it reports the
\* size of the workspace and touches neither x nor rank; otherwise x
\* becomes a minimum-norm solution and rank the rank of A.
GELSS(N, NRHS, A, x, rank, lwork) ==
  IF lwork = WorkspaceQuery
    THEN [x |-> x, rank |-> rank]
    ELSE [x |-> CHOOSE w \in {Entries(x, [i \in 0..(x.nr - 1) |->
                                           [j \in 0..(x.nc - 1) |->
                                              IF i < N /\ j < NRHS
                                                THEN f[i][j] ELSE x.a[i][j]]]) :
                                 f \in [0..(N - 1) ->
                                          [0..(NRHS - 1) -> (-Box)..Box]]} :
                  \A col \in 0..(NRHS - 1) : IsMinimumNorm(w, A, x, N, col),
          rank |-> MatrixRank(A, N)]

\* The tests of the arguments of solveUpperTriangularSystem.
BadArguments(x, Rv, b, robustness) ==
  \/ x.nc > b.nc
  \/ b.nr < Rv.nc
  \/ x.nr < Rv.nc
  \/ Rv.nr < Rv.nc
  \/ robustness < 0 \/ robustness > 2

\* "if (x.numCols() == b.numCols()) x.assign (b); else x.assign (b_view)"
CopyRhs(x, b) ==
  IF x.nc = b.nc THEN assign(x, b) ELSE assign(x, View(b, b.nr, x.nc))

\* The solve of solveUpperTriangularSystem under a valid robustness, on x1
\* (x after b was copied into it).  info: INFO of the last LAPACK call.
SolveWith(x1, Rv, robustness, lapack) ==
  LET N == Rv.nc
      NRHS == x1.nc
      scaled == LatrsColumns(x1, Rv, N, 0, FALSE)
      rank1 == N - ZeroColumns(Rv, N, 0, NRHS > 0)
      R_copy == View(Rv, N, N)
      solved == GELSS(N, NRHS, R_copy, x1, N, WorkspaceQuery)
  IN IF robustness = 0
       THEN [x |-> TRSM(x1, Rv, N, NRHS, 0), rank |-> N, deficient |-> FALSE,
             err |-> "none", info |-> 0]
     ELSE IF robustness = 1
       THEN IF NRHS > 0 /\ lapack.compute # 0
              THEN [x |-> x1, rank |-> 0, deficient |-> FALSE,
                    err |-> "logic_error", info |-> lapack.compute]
              ELSE [x |-> scaled.x, rank |-> rank1,
                    deficient |-> scaled.found \/ rank1 < N, err |-> "none",
                    info |-> 0]
     ELSE IF lapack.query # 0
       THEN [x |-> x1, rank |-> 0, deficient |-> FALSE, err |-> "logic_error",
             info |-> lapack.query]
     ELSE IF lapack.compute # 0
       THEN [x |-> solved.x, rank |-> 0, deficient |-> FALSE,
             err |-> "runtime_error", info |-> lapack.compute]
     ELSE [x |-> solved.x, rank |-> solved.rank, deficient |-> solved.rank < N,
           err |-> "none", info |-> 0]

\* solveUpperTriangularSystem that diagnoses the rank under robustness 0 as
\* it does under robustness 1.
solveUpperTriangularSystemDiagnosing(x, Rv, b, robustness, lapack) ==
  IF BadArguments(x, Rv, b, robustness)
    THEN [x |-> x, rank |-> 0, deficient |-> FALSE, err |-> "invalid_argument",
          info |-> 0]
    ELSE IF robustness = 0
      THEN [SolveWith(CopyRhs(x, b), Rv, 0, lapack) EXCEPT
              !.rank = SolveWith(CopyRhs(x, b), Rv, 1, NoFault).rank,
              !.deficient = SolveWith(CopyRhs(x, b), Rv, 1, NoFault).deficient]
      ELSE SolveWith(CopyRhs(x, b), Rv, robustness, lapack)

\* solveUpperTriangularSystem that copies b into x before it tests its
\* arguments.
solveUpperTriangularSystemCopyFirst(x, Rv, b, robustness, lapack) ==
  IF BadArguments(x, Rv, b, robustness)
    THEN [x |-> IF x.nc = b.nc THEN assign(x, b) ELSE x,
          rank |-> 0, deficient |-> FALSE, err |-> "invalid_argument", info |-> 0]
    ELSE SolveWith(CopyRhs(x, b), Rv, robustness, lapack)

\* solveUpperTriangularSystem (x, R, b, robustness): x after the call, the
\* pair (detectedRank, foundRankDeficiency) and the error raised.  lapack:
\* the status codes LAPACK hands back.
solveUpperTriangularSystem(x, Rv, b, robustness, lapack) ==
  IF BadArguments(x, Rv, b, robustness)
    THEN [x |-> x, rank |-> 0, deficient |-> FALSE, err |-> "invalid_argument",
          info |-> 0]
    ELSE SolveWith(CopyRhs(x, b), Rv, robustness, lapack)

\* solveGivens that copies all of z into y before the solve.
solveGivensWholeCopy(p, curCol) ==
  LET numRows == curCol + 2
      R_view == View(p.R, numRows - 1, numRows - 1)
      z_view == View(p.z, numRows - 1, p.z.nc)
      y_view == View(p.y, numRows - 1, p.y.nc)
      res == solveUpperTriangularSystem(y_view, R_view, z_view, 0, NoFault)
  IN [p |-> [p EXCEPT !.y = WriteView(p.z, res.x)], ret |-> 0, err |-> res.err]

\* solveGivens (y, R, z, curCol)
solveGivens(p, curCol) ==
  LET numRows == curCol + 2
      R_view == View(p.R, numRows - 1, numRows - 1)
      z_view == View(p.z, numRows - 1, p.z.nc)
      y_view == View(p.y, numRows - 1, p.y.nc)
      res == solveUpperTriangularSystem(y_view, R_view, z_view, 0, NoFault)
  IN [p |-> [p EXCEPT !.y = WriteView(p.y, res.x)], ret |-> 0, err |-> res.err]

\* ------------------------------------------------------------------ actions

\* The record of a call.  grew and dirty describe the problem a
\* reallocateAndReset or a reset found: whether a matrix had to grow, and
\* whether content was there to be wiped.
Call(name, a, b, ret, err) ==
  [name |-> name, a |-> a, b |-> b, ret |-> ret, err |-> err,
   grew |-> FALSE, dirty |-> FALSE]

\* No self-test is running.
NoTest == [pc |-> "none"]

\* A has a nonzero entry other than A(0,0).
Stale(A) ==
  \E i \in 0..(A.nr - 1) : \E j \in 0..(A.nc - 1) : <<i, j>> # <<0, 0>> /\ A.a[i][j] # 0

Init ==
  \E n \in 0..MaxIters :
    /\ H = NewProblem(n).H
    /\ R = NewProblem(n).R
    /\ y = NewProblem(n).y
    /\ z = NewProblem(n).z
    /\ theCosines = NewProblem(n).theCosines
    /\ theSines = NewProblem(n).theSines
    /\ op = Call("construct", n, 0, 0, "none")
    /\ requested = n
    /\ steps = 0
    /\ test = NoTest

\* The caller (the GMRES iteration, or makeRandomProblem) fills the upper
\* Hessenberg matrix: rows 0 .. j+1 of every column j.
WriteH ==
  /\ steps < MaxSteps
  /\ \E pat \in Patterns :
       /\ H' = [H EXCEPT !.a = [i \in 0..(H.nr - 1) |-> [j \in 0..(H.nc - 1) |->
                  IF i <= j + 1 THEN HEntry(pat, i, j) ELSE H.a[i][j]]]]
       /\ op' = Call("writeH", 0, 0, 0, "none")
  /\ steps' = steps + 1
  /\ UNCHANGED <<R, y, z, theCosines, theSines, requested, test>>

\* problem.reset (beta)
Reset ==
  /\ steps < MaxSteps
  /\ \E beta \in Betas :
       /\ SetProblem(reset(Problem, beta))
       /\ op' = [Call("reset", beta, 0, 0, "none") EXCEPT !.dirty = Stale(z)]
  /\ steps' = steps + 1
  /\ UNCHANGED <<requested, test>>

\* problem.reallocateAndReset (beta, maxNumIterations)
ReallocateAndReset ==
  /\ steps < MaxSteps
  /\ \E beta \in Betas : \E m \in 0..MaxIters :
       LET res == reallocateAndReset(Problem, beta, m)
       IN /\ SetProblem(res.p)
          /\ op' = [Call("reallocateAndReset", beta, m, 0, res.err) EXCEPT
                      !.grew = (res.err = "none" /\ H.nc < m),
                      !.dirty = ~IsZero(H) /\ ~IsZero(R) /\ Stale(z)]
          /\ requested' = IF res.err = "none" /\ m > requested THEN m ELSE requested
  /\ steps' = steps + 1
  /\ UNCHANGED test

\* solver.updateColumn (problem, curCol)
UpdateColumn ==
  /\ steps < MaxSteps
  /\ \E curCol \in 0..(H.nc - 1) : \E build \in BuildsFor(Problem, curCol) :
       LET res == updateColumn(Problem, curCol, build)
       IN /\ ColumnInside(Problem, curCol)
          /\ SetProblem(res.p)
          /\ op' = Call("updateColumn", curCol, curCol, res.ret, res.err)
  /\ steps' = steps + 1
  /\ UNCHANGED <<requested, test>>

\* solver.updateColumns (problem, startCol, endCol)
UpdateColumns ==
  /\ steps < MaxSteps
  /\ \E startCol \in 0..(H.nc - 1) : \E endCol \in 0..(H.nc - 1) :
     \E build \in BuildsFor(Problem, endCol) :
       LET res == updateColumns(Problem, startCol, endCol, build)
       IN /\ ColumnInside(Problem, startCol)
          /\ ColumnInside(Problem, endCol)
          /\ SetProblem(res.p)
          /\ op' = Call("updateColumns", startCol, endCol, res.ret, res.err)
  /\ steps' = steps + 1
  /\ UNCHANGED <<requested, test>>

\* solver.solve (problem, curCol)
Solve ==
  /\ steps < MaxSteps
  /\ \E curCol \in 0..(R.nc - 1) :
       LET res == solveGivens(Problem, curCol)
       IN /\ curCol + 1 <= R.nr /\ curCol + 1 <= z.nr /\ curCol + 1 <= y.nr
          /\ SetProblem(res.p)
          /\ op' = Call("solve", curCol, curCol, 0, res.err)
  /\ steps' = steps + 1
  /\ UNCHANGED <<requested, test>>

Next ==
  \/ WriteH
  \/ Reset
  \/ ReallocateAndReset
  \/ UpdateColumn
  \/ UpdateColumns
  \/ Solve

Spec == Init /\ [][Next]_vars

\* ------------------------------------------------------------- properties

\* beta e_1 as an nr by nc matrix.
BetaE1(nr, nc, beta) == Put(Matrix(nr, nc), 0, 0, beta)

\* updateColumn called once for each column k, k+1, ..., endCol in turn,
\* stopping at a call that throws.
RECURSIVE OneByOne(_, _, _, _, _)
OneByOne(p, k, endCol, last, build) ==
  IF k > endCol
    THEN [p |-> p, ret |-> last, err |-> "none"]
    ELSE LET one == updateColumn(p, k, build)
         IN IF one.err # "none" THEN one
            ELSE OneByOne(one.p, k + 1, endCol, one.ret, build)

\* C1. Panel equivalence: updateColumns(start, end) with start <= end leaves
\* the problem (R, z, cosines, sines, and the rest) as the calls
\* updateColumn(start), ..., updateColumn(end) in increasing order leave it,
\* and returns what the last of them returns.
PanelEquivalence ==
  [][(op'.name = "updateColumns" /\ op'.a <= op'.b) =>
       \E build \in BuildsFor(Problem, op'.b) :
         LET seq == OneByOne(Problem, op'.a, op'.b, 0, build)
         IN /\ Problem' = seq.p
            /\ op'.ret = seq.ret
            /\ op'.err = seq.err]_vars

\* C1 witness: a panel of two columns has been updated, with nonzero
\* diagonal entries in R and a nonzero residual entry in z.
PanelUpdated ==
  /\ op.name = "updateColumns" /\ op.err = "none" /\ op.a < op.b
  /\ R.a[op.a][op.a] # 0 /\ R.a[op.b][op.b] # 0
  /\ z.a[op.b + 1][0] # 0

\* C2. Zero-forcing: after updateColumn(k) returns, R(k+1, k) is zero and
\* R(k, k) is the result the rotation generator gave for the column's
\* entries k and k+1 (after the earlier rotations).
ZeroForcing ==
  [][(op'.name = "updateColumn" /\ op'.err = "none") =>
       LET k == op'.a
       IN /\ R'.a[k + 1][k] = 0
          /\ \E build \in BuildsFor(Problem, k) :
               LET col == ApplyPrevious(CopyColumn(H, R, k), theCosines,
                                        theSines, k, 0, build).R
               IN R'.a[k][k] =
                    computeGivensRotation(col.a[k][k], col.a[k + 1][k]).r]_vars

\* C2 witness: a column whose subdiagonal entry in H is nonzero has been
\* updated, and R holds a nonzero diagonal entry above the forced zero.
SubdiagonalForced ==
  /\ op.name = "updateColumn" /\ op.err = "none"
  /\ H.a[op.a + 1][op.a] # 0
  /\ R.a[op.a][op.a] # 0 /\ R.a[op.a + 1][op.a] = 0

\* C3. updateColumn, updateColumns and solve never change H.
HessenbergUntouched ==
  [][op'.name \in {"updateColumn", "updateColumns", "solve"} => H' = H]_vars

\* C3 witness: on a filled H, a column was updated and the system solved:
\* R and y hold results and H is still filled.
SolvedOnFilledH ==
  /\ op.name = "solve" /\ op.err = "none"
  /\ ~IsZero(H) /\ ~IsZero(R) /\ ~IsZero(y)

\* C4 (as claimed). reset(beta) with beta < 0 raises an argument error and
\* leaves z unchanged.
ResetRejectsNegativeBeta ==
  [][(op'.name = "reset" /\ op'.a < 0) =>
       (op'.err = "invalid_argument" /\ z' = z)]_vars

\* C5. reallocateAndReset(beta, maxIters) with beta < 0 or maxIters <= 0
\* raises an argument error and leaves H, R, y and z as they were.
ReallocateRejects ==
  [][(op'.name = "reallocateAndReset" /\ (op'.a < 0 \/ op'.b <= 0)) =>
       /\ op'.err = "invalid_argument"
       /\ H' = H /\ R' = R /\ y' = y /\ z' = z]_vars

\* C5 witness: a call with a valid beta and maxIters = 0 was rejected on a
\* problem whose H and z hold data.
RejectedOnFilledProblem ==
  /\ op.name = "reallocateAndReset" /\ op.err = "invalid_argument"
  /\ op.a >= 0 /\ op.b <= 0
  /\ ~IsZero(H) /\ Stale(z)

\* C6. After a successful reallocateAndReset(beta, maxIters), H, R and y are
\* zero and z is beta e_1.
ReallocateWipes ==
  (op.name = "reallocateAndReset" /\ op.err = "none") =>
    /\ IsZero(H) /\ IsZero(R) /\ IsZero(y)
    /\ z = BetaE1(z.nr, z.nc, op.a)

\* C6 witness: the call found data in H, R and z, had to grow the matrices,
\* and stored a positive beta.
WipedAfterGrowth ==
  /\ op.name = "reallocateAndReset" /\ op.err = "none"
  /\ op.grew /\ op.dirty /\ op.a > 0 /\ z.a[0][0] = op.a

ShapeOK ==
  /\ R.nr = H.nr /\ R.nc = H.nc
  /\ y.nr = H.nr /\ z.nr = H.nr
  /\ H.nr >= requested + 1 /\ H.nc >= requested

NoShrink ==
  /\ H'.nr >= H.nr /\ H'.nc >= H.nc
  /\ R'.nr >= R.nr /\ R'.nc >= R.nc
  /\ y'.nr >= y.nr /\ y'.nc >= y.nc
  /\ z'.nr >= z.nr /\ z'.nc >= z.nc

\* C7. Shape invariant: no dimension of H, R, y, z ever decreases; R has the
\* dimensions of H; y and z have as many rows as H; and H has at least
\* requested+1 rows and requested columns, requested being the largest
\* maximum-iteration count asked for so far.
ShapeInvariant == ShapeOK /\ [][ShapeOK' /\ NoShrink]_vars

\* C7 witness: a successful reallocateAndReset asked for fewer iterations
\* than the problem already holds, and the problem kept its size.
SmallerRequestKeptSize ==
  /\ op.name = "reallocateAndReset" /\ op.err = "none"
  /\ op.b < requested
  /\ H.nc = requested /\ H.nr = requested + 1

\* C8. reset(beta), beta >= 0, makes z equal to beta e_1 whatever z held, so
\* a second reset(beta) right after the first leaves z as the first left it.
ResetIdempotent ==
  [][(op'.name = "reset" /\ op'.a >= 0) =>
       /\ z' = BetaE1(z.nr, z.nc, op'.a)
       /\ (op.name = "reset" /\ op.a = op'.a) => z' = z]_vars

\* C8 witness: reset with a positive beta on a z that held rotated entries.
ResetOfRotatedRhs == op.name = "reset" /\ op.a > 0 /\ op.dirty /\ ~Stale(z)

\* C9. reset changes nothing but the content of z.
ResetFrame ==
  [][op'.name = "reset" =>
       /\ H' = H /\ R' = R /\ y' = y
       /\ theCosines' = theCosines /\ theSines' = theSines
       /\ z'.nr = z.nr /\ z'.nc = z.nc]_vars

\* C9 witness: reset on a problem whose H, R and rotation arrays hold data.
ResetOnFilledProblem ==
  /\ op.name = "reset"
  /\ ~IsZero(H) /\ ~IsZero(R)
  /\ \E j \in DOMAIN theSines : theSines[j] # 0

\* C10. updateColumn(k) returns the magnitude of z(k+1, 0) as it is after
\* the call, rows k and k+1 of z being the old ones turned by the rotation
\* stored at index k; the value is not negative.
ResidualReturned ==
  [][(op'.name = "updateColumn" /\ op'.err = "none") =>
       LET k == op'.a
       IN /\ op'.ret = Abs(z'.a[k + 1][0])
          /\ op'.ret >= 0
          /\ RotationsInside(Problem, k) =>
               LET r == ROT(z.a[k][0], z.a[k + 1][0], theCosines'[k], theSines'[k])
               IN z'.a[k][0] = r.x /\ z'.a[k + 1][0] = r.y]_vars

\* C10 witness: the rotated z(k+1, 0) is negative and its magnitude, a
\* positive number, was returned.
NegativeResidualEntry ==
  /\ op.name = "updateColumn" /\ op.err = "none"
  /\ z.a[op.a + 1][0] < 0 /\ op.ret > 0

\* C11. updateColumns(start, end) with start > end raises an argument error
\* and processes no column: R, z, the cosines and the sines are unchanged.
StartAfterEndRejected ==
  [][(op'.name = "updateColumns" /\ op'.a > op'.b) =>
       /\ op'.err = "invalid_argument"
       /\ R' = R /\ z' = z
       /\ theCosines' = theCosines /\ theSines' = theSines]_vars

\* C11 witness: the rejected call came on a problem whose H is filled and
\* whose z holds a residual, so that a processed column would have shown.
RejectedPanelOnFilledProblem ==
  /\ op.name = "updateColumns" /\ op.a > op.b /\ op.err = "invalid_argument"
  /\ ~IsZero(H) /\ z.a[0][0] > 0

\* R(i, j) y(j) + ... + R(i, k) y(k), for the first column of y.
RECURSIVE RowTimes(_, _, _, _, _)
RowTimes(Rm, ym, i, j, k) ==
  IF j > k THEN 0 ELSE Rm.a[i][j] * ym.a[j][0] + RowTimes(Rm, ym, i, j + 1, k)

\* C12. solve(k) changes nothing but rows 0..k of y: R, z, H, the cosines,
\* the sines, the shape of y and its rows beyond k stay; and when the
\* diagonal of the leading (k+1) by (k+1) block of R has no zero, rows 0..k
\* of y solve R y = z(0..k) by back substitution: row i of y is the
\* (rounded) quotient of z(i) - R(i, i+1..k) y(i+1..k) by R(i, i).
SolveFrame ==
  [][op'.name = "solve" =>
       LET k == op'.a
       IN /\ op'.err = "none"
          /\ R' = R /\ z' = z /\ H' = H
          /\ theCosines' = theCosines /\ theSines' = theSines
          /\ y'.nr = y.nr /\ y'.nc = y.nc
          /\ \A i \in (k + 1)..(y.nr - 1) : y'.a[i] = y.a[i]
          /\ (\A i \in 0..k : R.a[i][i] # 0) =>
               \A i \in 0..k :
                 y'.a[i][0] =
                   Quot(z.a[i][0] - RowTimes(R, y', i, i + 1, k), R.a[i][i])]_vars

\* C12 witness: a two by two system with a nonzero entry above the diagonal
\* was solved, both entries of the solution are nonzero, and z holds a
\* nonzero entry in the row after the system.
SolvedTwoByTwo ==
  /\ op.name = "solve" /\ op.a = 1
  /\ R.a[0][0] # 0 /\ R.a[1][1] # 0 /\ R.a[0][1] # 0
  /\ y.a[0][0] # 0 /\ y.a[1][0] # 0 /\ y.a[0][0] # NonFinite
  /\ z.a[2][0] # 0

\* ------------------------------------------------------------ dense kernels

\* Largest number of rows or columns of an operand handed to a dense kernel.
MaxDim == 2

Add(a, b) == IF a = NonFinite \/ b = NonFinite THEN NonFinite ELSE a + b

\* LocalDenseMatrixOps::matScale: A := alpha * A.
matScale(A, alpha) ==
  IF A.nr = 0 \/ A.nc = 0 THEN A
  ELSE Entries(A, [i \in 0..(A.nr - 1) |-> [j \in 0..(A.nc - 1) |->
                     Mul(A.a[i][j], alpha)]])

\* LocalDenseMatrixOps::matAdd: A := A + B.  The outcome: A after the call
\* and the error raised.
matAdd(A, B) ==
  IF B.nr # A.nr \/ B.nc # A.nc
    THEN [A |-> A, err |-> "invalid_argument"]
    ELSE [A |-> Entries(A, [i \in 0..(A.nr - 1) |-> [j \in 0..(A.nc - 1) |->
                              Add(A.a[i][j], B.a[i][j])]]),
          err |-> "none"]

\* LocalDenseMatrixOps::matSub: A := A - B.
matSub(A, B) ==
  IF B.nr # A.nr \/ B.nc # A.nc
    THEN [A |-> A, err |-> "invalid_argument"]
    ELSE [A |-> Entries(A, [i \in 0..(A.nr - 1) |-> [j \in 0..(A.nc - 1) |->
                              Sub(A.a[i][j], B.a[i][j])]]),
          err |-> "none"]

\* The sum over k < j of B(i, k) * A(k, j) that _TRSM (right side, upper
\* triangular) subtracts from B(i, j); a zero A(k, j) is skipped.
RECURSIVE SolvedTimes(_, _, _, _, _)
SolvedTimes(B, A, i, j, k) ==
  IF k >= j THEN 0
  ELSE Add(IF A.a[k][j] = 0 THEN 0 ELSE Mul(A.a[k][j], B.a[i][k]),
           SolvedTimes(B, A, i, j, k + 1))

\* blas.TRSM (RIGHT_SIDE, UPPER_TRI, NO_TRANS, NON_UNIT_DIAG, m, n, one, A,
\* lda, B, ldb): rows 0..m-1 of B := B * inverse (A), A the leading n by n
\* block, column after column from column j on.
RECURSIVE TRSMRight(_, _, _, _, _)
TRSMRight(B, A, m, n, j) ==
  IF j >= n THEN B
  ELSE TRSMRight(
         Entries(B, [i \in 0..(B.nr - 1) |-> [c \in 0..(B.nc - 1) |->
                       IF c = j /\ i < m
                         THEN Div(Sub(B.a[i][j], SolvedTimes(B, A, i, j, 0)),
                                  A.a[j][j])
                         ELSE B.a[i][c]]]),
         A, m, n, j + 1)

\* Whether the _TRSM call of rightUpperTriSolve leaves its operands: it is
\* told that B has R.numCols() rows and that R holds B.numCols() columns.
Overruns(B, Rm) == B.nc = Rm.nr /\ (Rm.nc > B.nr \/ Rm.nc < Rm.nr)

\* LocalDenseMatrixOps::rightUpperTriSolve: B := B / R.  A call that
\* overruns an operand has no defined outcome and is marked as such.
rightUpperTriSolve(B, Rm) ==
  IF B.nc # Rm.nr
    THEN [A |-> B, err |-> "invalid_argument"]
    ELSE IF Overruns(B, Rm)
      THEN [A |-> B, err |-> "undefined"]
      ELSE [A |-> TRSMRight(B, Rm, Rm.nc, B.nc, 0), err |-> "none"]

\* The sum over l in l..k-1 of alpha * B(l, j) * A(i, l) that _GEMM adds to
\* C(i, j); a zero B(l, j) is skipped.
RECURSIVE GemmSum(_, _, _, _, _, _, _)
GemmSum(A, B, i, j, l, k, alpha) ==
  IF l >= k THEN 0
  ELSE Add(IF B.a[l][j] = 0 THEN 0 ELSE Mul(Mul(alpha, B.a[l][j]), A.a[i][l]),
           GemmSum(A, B, i, j, l + 1, k, alpha))

\* blas.GEMM (NO_TRANS, NO_TRANS, m, n, k, alpha, A, lda, B, ldb, beta, C,
\* ldc): C := alpha * A * B + beta * C; with beta zero C is not read.
GEMM(m, n, k, alpha, A, B, beta, C) ==
  Entries(C, [i \in 0..(C.nr - 1) |-> [j \in 0..(C.nc - 1) |->
    IF i < m /\ j < n
      THEN Add(IF beta = 0 THEN 0 ELSE Mul(beta, C.a[i][j]),
               IF alpha = 0 THEN 0 ELSE GemmSum(A, B, i, j, 0, k, alpha))
      ELSE C.a[i][j]]])

\* matMatMult without the test "B.numCols() != C.numCols()": the columns
\* both B and C have are computed.
matMatMultNoColumnTest(beta, C, alpha, A, B) ==
  IF A.nc # B.nr \/ A.nr # C.nr
    THEN [A |-> C, err |-> "invalid_argument"]
    ELSE [A |-> GEMM(C.nr, IF B.nc < C.nc THEN B.nc ELSE C.nc, A.nc,
                     alpha, A, B, beta, C),
          err |-> "none"]

\* LocalDenseMatrixOps::matMatMult: C := beta*C + alpha*A*B.
matMatMult(beta, C, alpha, A, B) ==
  IF A.nc # B.nr \/ A.nr # C.nr \/ B.nc # C.nc
    THEN [A |-> C, err |-> "invalid_argument"]
    ELSE [A |-> GEMM(C.nr, C.nc, A.nc, alpha, A, B, beta, C), err |-> "none"]

\* An nr by nc operand: "full" has no zero entry, "stale" holds the same
\* value everywhere (what an earlier call left), "upper" is upper
\* triangular with a nonzero diagonal, "singular" is upper triangular with a
\* zero in the last place of its diagonal.
Fill(nr, nc, kind) ==
  [nr |-> nr, nc |-> nc,
   a |-> [i \in 0..(nr - 1) |-> [j \in 0..(nc - 1) |->
     CASE kind = "full" -> 2 * i + j + 1
       [] kind = "stale" -> 9
       [] kind = "upper" -> (IF i <= j THEN i + j + 1 ELSE 0)
       [] kind = "singular" ->
            (IF i > j \/ (i = j /\ i = nc - 1) THEN 0 ELSE i + j + 1)
       [] kind = "zerocolumn" ->
            (IF i > j \/ j = nc - 1 THEN 0 ELSE i + j + 1)]]]

\* The operands of a kind, of every shape up to MaxDim by MaxDim.
Operands(kind) == {Fill(nr, nc, kind) : nr \in 0..MaxDim, nc \in 0..MaxDim}

\* The part of the state that the dense kernels do not use.
NoProblem ==
  /\ theCosines = Array(0)
  /\ theSines = Array(0)
  /\ requested = 0
  /\ steps = 0
  /\ test = NoTest

\* The operands of the dense primitives: C is held in H, A in R, B in z.
DenseInit ==
  /\ H \in Operands("full")
  /\ R \in Operands("upper")
  /\ z \in Operands("full")
  /\ y = Matrix(0, 0)
  /\ op = Call("input", 0, 0, 0, "none")
  /\ NoProblem

\* ops.matAdd (A, B), A held in R and B in z.
MatAdd ==
  /\ op.name = "input"
  /\ R' = matAdd(R, z).A
  /\ op' = Call("matAdd", 0, 0, 0, matAdd(R, z).err)
  /\ UNCHANGED <<H, y, z, theCosines, theSines, requested, steps, test>>

\* ops.matSub (A, B), A held in R and B in z.
MatSub ==
  /\ op.name = "input"
  /\ R' = matSub(R, z).A
  /\ op' = Call("matSub", 0, 0, 0, matSub(R, z).err)
  /\ UNCHANGED <<H, y, z, theCosines, theSines, requested, steps, test>>

\* ops.rightUpperTriSolve (B, R), B held in z; the caller hands over
\* operands the _TRSM call stays inside.
RightUpperTriSolve ==
  /\ op.name = "input"
  /\ ~Overruns(z, R)
  /\ z' = rightUpperTriSolve(z, R).A
  /\ op' = Call("rightUpperTriSolve", 0, 0, 0, rightUpperTriSolve(z, R).err)
  /\ UNCHANGED <<H, R, y, theCosines, theSines, requested, steps, test>>

\* ops.matMatMult (beta, C, alpha, A, B), C held in H, A in R and B in z.
MatMatMult ==
  /\ op.name = "input"
  /\ \E beta \in {0, 1} : \E alpha \in {-1, 1} :
       /\ H' = matMatMult(beta, H, alpha, R, z).A
       /\ op' = Call("matMatMult", beta, alpha, 0,
                     matMatMult(beta, H, alpha, R, z).err)
  /\ UNCHANGED <<R, y, z, theCosines, theSines, requested, steps, test>>

DenseNext ==
  \/ MatAdd
  \/ MatSub
  \/ RightUpperTriSolve
  \/ MatMatMult

DenseSpec == DenseInit /\ [][DenseNext]_vars

\* C19. The dense primitives reject operands whose dimensions do not fit
\* with an argument error and leave the output operand as it was: matAdd and
\* matSub when A and B differ in rows or columns, rightUpperTriSolve when
\* B.cols # R.rows, matMatMult when A.cols # B.rows or A.rows # C.rows or
\* B.cols # C.cols.
DimensionMismatchRejected ==
  [][/\ (op'.name \in {"matAdd", "matSub"} /\ (R.nr # z.nr \/ R.nc # z.nc)) =>
          (op'.err = "invalid_argument" /\ R' = R)
     /\ (op'.name = "rightUpperTriSolve" /\ z.nc # R.nr) =>
          (op'.err = "invalid_argument" /\ z' = z)
     /\ (op'.name = "matMatMult" /\
         (R.nc # z.nr \/ R.nr # H.nr \/ z.nc # H.nc)) =>
          (op'.err = "invalid_argument" /\ H' = H)]_vars

\* C19 witness: matMatMult was rejected for the columns of B and C alone,
\* on operands that are not empty and with beta zero (C would have been
\* overwritten).
ProductRejectedForColumns ==
  /\ op.name = "matMatMult" /\ op.err = "invalid_argument" /\ op.a = 0
  /\ R.nc = z.nr /\ R.nr = H.nr /\ z.nc # H.nc
  /\ H.nr > 0 /\ H.nc > 0 /\ z.nc > 0 /\ R.nc > 0

\* ----------------------------------------------- CA-GMRES Hessenberg update

\* mat_type (View or Copy, A, nr, nc, r0, c0): the nr by nc block of A whose
\* first entry is A(r0, c0).
SubView(A, nr, nc, r0, c0) ==
  [nr |-> nr, nc |-> nc,
   a |-> [i \in 0..(nr - 1) |-> [j \in 0..(nc - 1) |-> A.a[r0 + i][c0 + j]]]]

\* A with the block that starts at (r0, c0) overwritten by V, as after
\* writing through the view.
WriteSub(A, V, r0, c0) ==
  Entries(A, [i \in 0..(A.nr - 1) |-> [j \in 0..(A.nc - 1) |->
    IF r0 <= i /\ i < r0 + V.nr /\ c0 <= j /\ j < c0 + V.nc
      THEN V.a[i - r0][j - c0] ELSE A.a[i][j]]])

\* How a _GEMM whose output overlaps an input behaves: a library that
\* copies its inputs into buffers reads them as they were before the call,
\* the reference loops read what they have written.
Blas == {"buffered", "inplace"}

\* "ops.matMatMult (zero, H_km1k, -one, H_km1, temp)": H_km1 is the leading
\* M by M block of H and H_km1k the M by S block that starts at column
\* M - 1 = startCol, so the last column of H_km1 is the first of H_km1k.
\* The reference loops clear that column, add to it the products with the
\* columns before, then the product with itself; the columns after it read
\* it as it then is.
HkmProduct(Hm, temp, M, S, startCol, blas) ==
  LET H_km1 == SubView(Hm, M, M, 0, 0)
      H_km1k == SubView(Hm, M, S, 0, startCol)
      cleared == Entries(H_km1, [i \in 0..(M - 1) |-> [j \in 0..(M - 1) |->
                   IF j = M - 1 THEN 0 ELSE H_km1.a[i][j]]])
      partial == matMatMult(0, H_km1k, -1, cleared, temp).A
      first == [i \in 0..(M - 1) |->
                  IF temp.a[M - 1][0] = 0 THEN partial.a[i][0]
                  ELSE Add(partial.a[i][0],
                           Mul(Mul(-1, temp.a[M - 1][0]), partial.a[i][0]))]
      written == Entries(H_km1, [i \in 0..(M - 1) |-> [j \in 0..(M - 1) |->
                   IF j = M - 1 THEN first[i] ELSE H_km1.a[i][j]]])
      rest == matMatMult(0, H_km1k, -1, written, temp).A
  IN IF blas = "buffered"
       THEN matMatMult(0, H_km1k, -1, H_km1, temp)
       ELSE [A |-> Entries(rest, [i \in 0..(M - 1) |-> [j \in 0..(S - 1) |->
                     IF j = 0 THEN first[i] ELSE rest.a[i][j]]]),
             err |-> matMatMult(0, H_km1k, -1, H_km1, temp).err]

\* The branch "startCol == 0" of caGmresUpdateUpperHessenbergImpl.
FirstPanel(Hm, Rm, Bm, endCol) ==
  LET numCols == endCol + 1
      R_underline == SubView(Rm, numCols + 1, numCols + 1, 0, 0)
      B_view == SubView(Bm, numCols + 1, numCols, 0, 0)
      R_view == SubView(Rm, numCols, numCols, 0, 0)
      H_view == SubView(Hm, numCols + 1, numCols, 0, 0)
      product == matMatMult(0, H_view, 1, R_underline, B_view)
      solved == rightUpperTriSolve(product.A, R_view)
  IN IF product.err # "none" THEN [H |-> Hm, err |-> product.err]
     ELSE [H |-> WriteSub(Hm, solved.A, 0, 0), err |-> solved.err]

\* The branch "startCol > 0" of caGmresUpdateUpperHessenbergImpl.
LaterPanel(Hm, Rm, Bm, startCol, endCol, blas) ==
  LET M == startCol + 1
      S == endCol - startCol + 1
      R_km1k_underline == SubView(Rm, M, S + 1, 0, startCol - 1)
      R_km1k == SubView(Rm, M, S, 0, startCol - 1)
      R_k_underline == SubView(Rm, S + 1, S + 1, M, startCol - 1)
      R_k == SubView(Rm, S, S, M, startCol - 1)
      B_k_underline == SubView(Bm, S + 1, S, 0, 0)
      quotient == rightUpperTriSolve(R_km1k, R_k)
      lastRow == SubView(quotient.A, 1, S, M - 1, 0)
      cross == HkmProduct(Hm, quotient.A, M, S, startCol, blas)
      H1 == WriteSub(Hm, cross.A, 0, startCol)
      product == matMatMult(0, quotient.A, 1, R_km1k_underline, B_k_underline)
      solved == rightUpperTriSolve(product.A, R_k)
      sum == matAdd(SubView(H1, M, S, 0, startCol), solved.A)
      H2 == WriteSub(H1, sum.A, 0, startCol)
      below == matMatMult(0, SubView(H2, S + 1, S, M, startCol), 1,
                          R_k_underline, B_k_underline)
      H3 == WriteSub(H2, below.A, M, startCol)
      belowSolved == rightUpperTriSolve(below.A, R_k)
      H4 == WriteSub(H3, belowSolved.A, M, startCol)
      scaled == matScale(lastRow, H4.a[M + 1][M])
      H_k_view == SubView(H4, 1, S + 1, M, startCol)
      difference == matSub(H_k_view, scaled)
  IN IF quotient.err # "none" THEN [H |-> Hm, err |-> quotient.err]
     ELSE IF cross.err # "none" THEN [H |-> Hm, err |-> cross.err]
     ELSE IF product.err # "none" THEN [H |-> H1, err |-> product.err]
     ELSE IF solved.err # "none" THEN [H |-> H1, err |-> solved.err]
     ELSE IF sum.err # "none" THEN [H |-> H1, err |-> sum.err]
     ELSE IF below.err # "none" THEN [H |-> H2, err |-> below.err]
     ELSE IF belowSolved.err # "none" THEN [H |-> H3, err |-> belowSolved.err]
     ELSE [H |-> WriteSub(H4, difference.A, M, startCol), err |-> difference.err]

\* The two branches, after the tests of the arguments.
UpdatePanel(Hm, Rm, Bm, startCol, endCol, blas) ==
  IF startCol = 0
    THEN FirstPanel(Hm, Rm, Bm, endCol)
    ELSE LaterPanel(Hm, Rm, Bm, startCol, endCol, blas)

\* caGmresUpdateUpperHessenbergImpl that takes a negative startCol for 0.
caGmresUpdateCoerced(Hm, Rm, Bm, startCol, endCol, blas) ==
  IF startCol > endCol
    THEN [H |-> Hm, err |-> "invalid_argument"]
    ELSE UpdatePanel(Hm, Rm, Bm, IF startCol < 0 THEN 0 ELSE startCol, endCol, blas)

\* caGmresUpdateUpperHessenbergImpl (H, R, B, startCol, endCol): H after the
\* call and the error raised.
caGmresUpdateUpperHessenbergImpl(Hm, Rm, Bm, startCol, endCol, blas) ==
  IF startCol < 0
    THEN [H |-> Hm, err |-> "invalid_argument"]
    ELSE IF startCol > endCol
      THEN [H |-> Hm, err |-> "invalid_argument"]
      ELSE UpdatePanel(Hm, Rm, Bm, startCol, endCol, blas)

\* The shapes of H, the basis' R factor and the change-of-basis matrix B
\* that hold every block an update of columns up to MaxIters - 1 views.
CaInit ==
  /\ \E pat \in Patterns :
       H = [nr |-> MaxIters + 2, nc |-> MaxIters + 1,
            a |-> [i \in 0..(MaxIters + 1) |-> [j \in 0..MaxIters |->
                     IF i <= j + 1 THEN HEntry(pat, i, j) ELSE 0]]]
  /\ \E kind \in {"full", "upper", "singular"} :
       R = Fill(MaxIters + 2, MaxIters + 2, kind)
  /\ \E kind \in {"full", "upper", "singular"} :
       z = Fill(MaxIters + 1, MaxIters, kind)
  /\ y = Matrix(0, 0)
  /\ op = Call("input", 0, 0, 0, "none")
  /\ NoProblem

\* caGmresUpdateUpperHessenberg (H, R, B, startCol, endCol), R held in R and
\* B in z.
CaGmresUpdate ==
  /\ op.name = "input"
  /\ \E startCol \in (-1)..(MaxIters - 1) : \E endCol \in 0..(MaxIters - 1) :
     \E blas \in Blas :
       LET res == caGmresUpdateUpperHessenbergImpl(H, R, z, startCol, endCol, blas)
       IN /\ H' = res.H
          /\ op' = Call("caGmresUpdateUpperHessenberg", startCol, endCol, 0, res.err)
  /\ UNCHANGED <<R, y, z, theCosines, theSines, requested, steps, test>>

CaNext == CaGmresUpdate

CaSpec == CaInit /\ [][CaNext]_vars

\* C13. caGmresUpdateUpperHessenberg raises an argument error when
\* start < 0 or start > end, and H is then unchanged.
PanelArgumentsRejected ==
  [][(op'.name = "caGmresUpdateUpperHessenberg" /\
      (op'.a < 0 \/ op'.a > op'.b)) =>
       (op'.err = "invalid_argument" /\ H' = H)]_vars

\* C13 witness: a call with a negative start and one with start > end >= 0
\* differ only in the test that rejects them; here the start is negative
\* and H holds data.
NegativeStartRejected ==
  /\ op.name = "caGmresUpdateUpperHessenberg" /\ op.err = "invalid_argument"
  /\ op.a < 0 /\ op.a <= op.b
  /\ ~IsZero(H)

\* C14 (as claimed). A later panel, 0 < start <= end, on operands large
\* enough for every view, is updated without any error.
LaterPanelCompletes ==
  [][(op'.name = "caGmresUpdateUpperHessenberg" /\
      0 < op'.a /\ op'.a <= op'.b) => op'.err = "none"]_vars

\* ---------------------------------------------------------- LAPACK kernels

\* The sum of the squares of the entries of A from entry (i, j) on, row
\* after row.
RECURSIVE SumSquares(_, _, _)
SumSquares(A, i, j) ==
  IF i >= A.nr \/ A.nc = 0 THEN 0
  ELSE A.a[i][j] * A.a[i][j]
       + (IF j + 1 < A.nc THEN SumSquares(A, i, j + 1) ELSE SumSquares(A, i + 1, 0))

\* What lapack.GESVD ('N', 'N', ...) stores: the singular values of A, the
\* largest first.  Here for an A with one row or one column only (or none),
\* whose one singular value is the norm of its entries.
GESVD(A) ==
  CASE A.nr = 0 \/ A.nc = 0 -> Array(0)
    [] A.nr = 1 \/ A.nc = 1 -> [i \in 0..0 |-> Sqrt(SumSquares(A, 0, 0))]

\* singularValues (A, sigmas): sigmas after the call, the error raised and
\* the INFO of the last _GESVD call.
singularValues(A, sigmas, lapack) ==
  LET k == IF A.nr < A.nc THEN A.nr ELSE A.nc
  IN IF size(sigmas) < k
       THEN [sigmas |-> sigmas, err |-> "invalid_argument", info |-> 0]
     ELSE IF lapack.query # 0
       THEN [sigmas |-> sigmas, err |-> "logic_error", info |-> lapack.query]
     ELSE IF lapack.compute # 0
       THEN [sigmas |-> sigmas, err |-> "logic_error", info |-> lapack.compute]
     ELSE [sigmas |-> [i \in DOMAIN sigmas |->
                         IF i < k THEN GESVD(A)[i] ELSE sigmas[i]],
           err |-> "none", info |-> 0]

\* lapack.GELS ('N', m, n, nrhs, A, lda, B, ldb, work, lwork, &info) for an
\* m by n matrix A, m > n: A is overwritten by its QR factorization (the
\* factor R here computed with plane rotations) and B by Q^T B, whose first
\* n rows are then overwritten by the solution.  INFO is i > 0 when R(i, i)
\* (counting from 1) is zero and the solution was not computed; fault: a
\* status that comes from elsewhere (an illegal argument), nothing being
\* computed then.
Factored(A, Bm, fault, qr) ==
  LET zeros == {j \in 0..(A.nc - 1) : qr.R.a[j][j] = 0}
      first == CHOOSE j \in zeros : \A l \in zeros : j <= l
  IN IF fault # 0 THEN [A |-> A, B |-> Bm, info |-> fault]
     ELSE IF zeros # {} THEN [A |-> qr.R, B |-> qr.z, info |-> first + 1]
     ELSE [A |-> qr.R, B |-> TRSM(qr.z, qr.R, A.nc, Bm.nc, 0), info |-> 0]

GELS(A, Bm, fault) ==
  Factored(A, Bm, fault,
           UpdateLoop([H |-> A, R |-> Matrix(A.nr, A.nc), y |-> Bm, z |-> Bm,
                       theCosines |-> Array(A.nc), theSines |-> Array(A.nc)],
                      0, A.nc - 1, 0, [checked |-> TRUE, g |-> 0]).p)

\* The end of solveLapack: the test of the status ls.info of the second
\* _GELS call, and the value returned, the last entry of the solved
\* right-hand side ls.B.
Returned(numRows, ls) ==
  [ret |-> IF ls.info # 0 THEN 0 ELSE magnitude(ls.B.a[numRows - 1][0]),
   err |-> IF ls.info # 0 THEN "logic_error" ELSE "none",
   info |-> ls.info]

\* The two _GELS calls of solveLapack on R1 and the right-hand side rhs: the
\* matrices after them and the outcome of the call.
LeastSquares(R1, rhs, numRows, lapack, ls) ==
  IF lapack.query # 0
    THEN [R |-> R1, rhs |-> rhs,
          out |-> [ret |-> 0, err |-> "logic_error", info |-> lapack.query]]
    ELSE [R |-> WriteView(R1, ls.A), rhs |-> WriteView(rhs, ls.B),
          out |-> Returned(numRows, ls)]

\* The outcome of solveLapack: R, y and z after the call, the value
\* returned, the error raised and the INFO of the last _GELS call.
Outcome(Rm, ym, zm, out) ==
  [R |-> Rm, y |-> ym, z |-> zm, ret |-> out.ret, err |-> out.err,
   info |-> out.info]

\* solveLapack with the least-squares routine run in place on z.
solveLapackOnRhs(Hm, Rm, ym, zm, curCol, lapack) ==
  LET numRows == curCol + 2
      numCols == curCol + 1
      R1 == WriteView(Rm, View(Hm, numRows, numCols))
      solved(ls) == LeastSquares(R1, zm, numRows, lapack, ls)
      done(res) == Outcome(res.R, ym, res.rhs, res.out)
  IN done(solved(GELS(View(R1, numRows, numCols), View(zm, numRows, ym.nc),
                      lapack.compute)))

\* solveLapack (H, R, y, z, curCol)
solveLapack(Hm, Rm, ym, zm, curCol, lapack) ==
  LET numRows == curCol + 2
      numCols == curCol + 1
      R1 == WriteView(Rm, View(Hm, numRows, numCols))
      y1 == WriteView(ym, View(zm, numRows, ym.nc))
      solved(ls) == LeastSquares(R1, y1, numRows, lapack, ls)
      done(res) == Outcome(res.R, res.rhs, zm, res.out)
  IN done(solved(GELS(View(R1, numRows, numCols), View(y1, numRows, ym.nc),
                      lapack.compute)))

\* The operands of the solvers: x is held in y, b in z, and H is the upper
\* Hessenberg matrix of solveLapack.
SolverInit ==
  /\ H = Fill(MaxDim, MaxDim - 1, "full")
  /\ R \in Operands("upper") \cup Operands("singular") \cup Operands("zerocolumn")
  /\ y \in Operands("stale")
  /\ z \in Operands("full")
  /\ op = Call("input", 0, 0, <<0, FALSE>>, "none")
  /\ NoProblem

\* solveUpperTriangularSystem (x, R, b, robustness), x held in y and b in z.
\* The call record keeps the robustness, the last INFO and the pair
\* returned.
SolveUpperTriangular ==
  /\ op.name = "input"
  /\ \E robustness \in (-1)..3 : \E lapack \in Statuses :
       LET res == solveUpperTriangularSystem(y, R, z, robustness, lapack)
       IN /\ y' = res.x
          /\ op' = Call("solveUpperTriangularSystem", robustness, res.info,
                        <<res.rank, res.deficient>>, res.err)
  /\ UNCHANGED <<H, R, z, theCosines, theSines, requested, steps, test>>

\* singularValues (A, sigmas), A held in z, sigmas an array of length 0
\* or 1.  The call record keeps the length, the last INFO and sigmas.
SingularValues ==
  /\ op.name = "input"
  /\ z.nr <= 1 \/ z.nc <= 1
  /\ \E len \in 0..1 : \E lapack \in Statuses :
       LET res == singularValues(z, Array(len), lapack)
       IN op' = Call("singularValues", len, res.info, res.sigmas, res.err)
  /\ UNCHANGED <<H, R, y, z, theCosines, theSines, requested, steps, test>>

\* solveLapack (H, R, y, z, curCol) on operands that hold the views it takes.
SolveLapack ==
  /\ op.name = "input"
  /\ \E curCol \in 0..(MaxDim - 2) : \E lapack \in Statuses :
       LET res == solveLapack(H, R, y, z, curCol, lapack)
       IN /\ H.nr >= curCol + 2 /\ H.nc >= curCol + 1
          /\ R.nr >= curCol + 2 /\ R.nc >= curCol + 1
          /\ y.nr >= curCol + 2 /\ z.nr >= curCol + 2
          /\ y.nc >= 1 /\ z.nc >= y.nc
          /\ lapack.compute <= 0
          /\ R' = res.R /\ y' = res.y /\ z' = res.z
          /\ op' = Call("solveLapack", curCol, res.info, res.ret, res.err)
  /\ UNCHANGED <<H, theCosines, theSines, requested, steps, test>>

SolverNext ==
  \/ SolveUpperTriangular
  \/ SingularValues
  \/ SolveLapack

SolverSpec == SolverInit /\ [][SolverNext]_vars

\* C15. Under robustness 0 solveUpperTriangularSystem returns (N, false), N
\* the number of columns of R, whatever R holds, zero diagonal entries
\* included.
FastSolveReportsFullRank ==
  [][(op'.name = "solveUpperTriangularSystem" /\ op'.a = 0 /\
      op'.err = "none") => op'.ret = <<R.nc, FALSE>>]_vars

\* C15 witness: robustness 0 on an R with a zero diagonal entry and a
\* right-hand side that reaches it.
FastSolveOnSingular ==
  /\ op.name = "solveUpperTriangularSystem" /\ op.a = 0 /\ op.err = "none"
  /\ R.nc > 0 /\ y.nc > 0
  /\ \E j \in 0..(R.nc - 1) : R.a[j][j] = 0
  /\ op.ret = <<R.nc, FALSE>>

\* C16. solveUpperTriangularSystem raises an argument error and leaves x as
\* it was when the robustness is outside {0, 1, 2}, when R has fewer rows
\* than columns, when b or x has fewer rows than R has columns, or when x
\* has more columns than b.
SolveArgumentsRejected ==
  [][(op'.name = "solveUpperTriangularSystem" /\
      (\/ op'.a \notin {0, 1, 2}
       \/ R.nr < R.nc
       \/ z.nr < R.nc \/ y.nr < R.nc
       \/ y.nc > z.nc)) =>
       (op'.err = "invalid_argument" /\ y' = y)]_vars

\* C16 witness: x and b have the same shape, with data in b that a copy
\* would have brought into x, and the call was rejected because R has fewer
\* rows than columns.
WideFactorRejected ==
  /\ op.name = "solveUpperTriangularSystem" /\ op.err = "invalid_argument"
  /\ op.a \in {0, 1, 2}
  /\ y.nr = z.nr /\ y.nc = z.nc /\ y.nc > 0 /\ y.nr >= R.nc
  /\ R.nr < R.nc
  /\ y # z

\* C17 (as claimed). Under robustness 2 every column of x is a minimum-norm
\* solution of min ||R x - b|| and the rank returned is the rank of R; for
\* a nonsingular R, R x = b.
MinimumNormSolved ==
  [][(op'.name = "solveUpperTriangularSystem" /\ op'.a = 2 /\
      op'.err = "none") =>
       LET N == R.nc
           R_copy == View(R, N, N)
       IN /\ op'.ret[1] = MatrixRank(R_copy, N)
          /\ \A col \in 0..(y.nc - 1) :
               /\ IsMinimumNorm(y', R_copy, z, N, col)
               /\ MatrixRank(R_copy, N) = N =>
                    Residual2(R_copy, y', z, N, col, 0) = 0]_vars

\* C18 (as claimed). A nonzero INFO from a LAPACK routine (workspace query
\* or computation) ends the call with a logic error.
StatusIsLogicError ==
  [][(op'.name \in {"solveUpperTriangularSystem", "singularValues",
                    "solveLapack"} /\ op'.b # 0) =>
       op'.err = "logic_error"]_vars

\* ---------------------------------------------------------------- self-test

\* The nonzero first entries of z that makeRandomProblem draws.
Firsts == {1, 3, 5}

\* makeRandomProblem (H, z): H random with zeros below the subdiagonal, z
\* with its first entry z_first.
makeRandomProblem(Hm, zm, pat, z_first) ==
  [H |-> Entries(Hm, [i \in 0..(Hm.nr - 1) |-> [j \in 0..(Hm.nc - 1) |->
                        IF i <= j + 1 THEN HEntry(pat, i, j) ELSE 0]]),
   z |-> Put(zm, 0, 0, z_first)]

\* testUpdateColumn (out, numCols) up to its first statement: the matrices
\* and arrays it declares.  H, R, y, z, theCosines and theSines hold H,
\* R_givens, y_givens, z_givens and the rotations; test holds the position
\* in the function, z and the operands of the reference solver.
TestInit ==
  \E numCols \in 1..MaxIters :
    /\ H = Matrix(numCols + 1, numCols)
    /\ R = Matrix(numCols + 1, numCols)
    /\ y = Matrix(numCols + 1, 1)
    /\ z = Matrix(numCols + 1, 1)
    /\ theCosines = Array(numCols)
    /\ theSines = Array(numCols)
    /\ test = [pc |-> "make", numCols |-> numCols, curCol |-> 0,
               z |-> Matrix(numCols + 1, 1),
               R_lapack |-> Matrix(numCols + 1, numCols),
               y_lapack |-> Matrix(numCols + 1, 1),
               z_lapack |-> Matrix(numCols + 1, 1)]
    /\ op = Call("input", numCols, 0, 0, "none")
    /\ requested = 0
    /\ steps = 0

\* makeRandomProblem (H, z); z_givens.assign (z); z_lapack.assign (z);
TestMakeProblem ==
  /\ test.pc = "make"
  /\ \E pat \in Patterns : \E z_first \in Firsts :
       LET made == makeRandomProblem(H, test.z, pat, z_first)
       IN /\ H' = made.H
          /\ z' = assign(z, made.z)
          /\ test' = [test EXCEPT !.pc = "update", !.z = made.z,
                                  !.z_lapack = assign(test.z_lapack, made.z)]
  /\ op' = Call("makeRandomProblem", 0, 0, 0, "none")
  /\ UNCHANGED <<R, y, theCosines, theSines, requested, steps>>

\* One turn of "for (curCol = 0; curCol < numCols; ++curCol)
\* updateColumnGivens (H, R_givens, y_givens, z_givens, theCosines,
\* theSines, curCol);"
TestUpdateColumn ==
  /\ test.pc = "update"
  /\ \E build \in BuildsFor(Problem, test.curCol) :
       LET res == updateColumnGivens(Problem, test.curCol, build)
       IN /\ SetProblem(res.p)
          /\ op' = Call("updateColumnGivens", test.curCol, 0, res.ret, res.err)
  /\ test' = [test EXCEPT !.curCol = test.curCol + 1,
                          !.pc = IF test.curCol + 1 < test.numCols
                                   THEN "update" ELSE "solveGivens"]
  /\ UNCHANGED <<requested, steps>>

\* solveGivens (y_givens, R_givens, z_givens, numCols-1);
TestSolveGivens ==
  /\ test.pc = "solveGivens"
  /\ LET res == solveGivens(Problem, test.numCols - 1)
     IN /\ SetProblem(res.p)
        /\ op' = Call("solveGivens", test.numCols - 1, 0, res.ret, res.err)
  /\ test' = [test EXCEPT !.pc = "solveLapack"]
  /\ UNCHANGED <<requested, steps>>

\* solveLapack (H, R_lapack, y_lapack, z_lapack, numCols-1);
TestSolveLapack ==
  /\ test.pc = "solveLapack"
  /\ \E lapack \in Statuses :
       LET res == solveLapack(H, test.R_lapack, test.y_lapack, test.z_lapack,
                              test.numCols - 1, lapack)
       IN /\ lapack.compute <= 0
          /\ test' = [test EXCEPT !.pc = "done", !.R_lapack = res.R,
                                  !.y_lapack = res.y, !.z_lapack = res.z]
          /\ op' = Call("solveLapack", test.numCols - 1, res.info, res.ret,
                        res.err)
  /\ UNCHANGED <<H, R, y, z, theCosines, theSines, requested, steps>>

TestNext ==
  \/ TestMakeProblem
  \/ TestUpdateColumn
  \/ TestSolveGivens
  \/ TestSolveLapack

TestSpec == TestInit /\ [][TestNext]_vars

\* C20. solveLapack leaves H and the right-hand side z it is given as they
\* were; in the self-test the state of the Givens path (R_givens, y_givens,
\* z_givens, the cosines and the sines) is the same after the reference
\* solve as before it.
ReferenceSolveFrame ==
  [][op'.name = "solveLapack" =>
       /\ H' = H
       /\ test'.z_lapack = test.z_lapack
       /\ test'.z = test.z
       /\ R' = R /\ y' = y /\ z' = z
       /\ theCosines' = theCosines /\ theSines' = theSines]_vars

\* C20 witness: the reference solve has run after the Givens path filled its
\* factor, its solution and its rotations, and wrote its own R and y.
ReferenceSolvedAfterGivens ==
  /\ op.name = "solveLapack" /\ op.err = "none"
  /\ test.pc = "done" /\ test.numCols = 2
  /\ ~IsZero(R) /\ ~IsZero(y)
  /\ \E i \in DOMAIN theCosines : theSines[i] # 0
  /\ ~IsZero(test.R_lapack)
  /\ test.y_lapack # test.z_lapack

\* ---------------------------------------------------------------- scenarios

\* The scalars of a scenario are fixed-point numbers: an entry h of H is held
\* as HScale * h, an entry of y as YScale times its value, and an entry of z,
\* a product of the two, as HScale * YScale times its value.
HScale == 100

YScale == 100

\* Number of updateColumn and solve calls in one scenario.
MaxCalls == 3

\* The rounding of the arithmetic allowed for when two values are compared:
\* one part in Tolerance of the size of the right-hand side.
Tolerance == 50

\* The initial residual norms of the scenarios.
ScenarioBetas == {1, 3, 5}

\* The problem is constructed for n iterations; the calls of the scenario
\* are kept in test.
ScenarioInit ==
  \E n \in 1..MaxIters :
    /\ H = NewProblem(n).H
    /\ R = NewProblem(n).R
    /\ y = NewProblem(n).y
    /\ z = NewProblem(n).z
    /\ theCosines = NewProblem(n).theCosines
    /\ theSines = NewProblem(n).theSines
    /\ op = Call("construct", n, 0, 0, "none")
    /\ requested = n
    /\ steps = 0
    /\ test = [pc |-> "new", pat |-> "none", beta |-> 0, calls |-> << >>]

\* The caller fills the upper Hessenberg matrix H and calls reset (beta).
ScenarioFill ==
  /\ test.pc = "new"
  /\ \E pat \in Patterns : \E beta \in ScenarioBetas :
       LET filled == [Problem EXCEPT !.H =
                        Entries(H, [i \in 0..(H.nr - 1) |-> [j \in 0..(H.nc - 1) |->
                          IF i <= j + 1 THEN HScale * HEntry(pat, i, j) ELSE 0]])]
       IN /\ SetProblem(reset(filled, beta * HScale * YScale))
          /\ op' = Call("reset", beta * HScale * YScale, 0, 0, "none")
          /\ test' = [test EXCEPT !.pc = "filled", !.pat = pat, !.beta = beta]
  /\ UNCHANGED <<requested, steps>>

\* solver.updateColumn (problem, curCol) as a call of a scenario
ScenarioUpdateColumn ==
  /\ test.pc = "filled" /\ Len(test.calls) < MaxCalls
  /\ \E curCol \in 0..(H.nc - 1) : \E build \in BuildsFor(Problem, curCol) :
       LET res == updateColumn(Problem, curCol, build)
       IN /\ ColumnInside(Problem, curCol)
          /\ SetProblem(res.p)
          /\ op' = Call("updateColumn", curCol, curCol, res.ret, res.err)
          /\ test' = [test EXCEPT !.calls = Append(@, <<"updateColumn", curCol>>)]
  /\ UNCHANGED <<requested, steps>>

\* solver.solve (problem, curCol) as a call of a scenario
ScenarioSolve ==
  /\ test.pc = "filled" /\ Len(test.calls) < MaxCalls
  /\ \E curCol \in 0..(R.nc - 1) :
       LET res == solveGivens(Problem, curCol)
       IN /\ SetProblem(res.p)
          /\ op' = Call("solve", curCol, curCol, 0, res.err)
          /\ test' = [test EXCEPT !.calls = Append(@, <<"solve", curCol>>)]
  /\ UNCHANGED <<requested, steps>>

ScenarioNext ==
  \/ ScenarioFill
  \/ ScenarioUpdateColumn
  \/ ScenarioSolve

ScenarioSpec == ScenarioInit /\ [][ScenarioNext]_vars

\* Row i of the first two columns of H times y.
RowOfHTimesY(i) == H.a[i][0] * y.a[0][0] + H.a[i][1] * y.a[1][0]

\* Whether a and b differ by no more than the rounding allowed for, a and b
\* being multiples k * v and k * w of values v and w of the size of z.
Near(a, b, k) == Abs(a - b) * Tolerance <= k * 5 * HScale * YScale

\* The scenario H = [[2,1],[1,3],[0,1]], z = [5,0,0]^T after updateColumn(0),
\* updateColumn(1) and solve(1).
ExampleRun ==
  /\ test.pc = "filled" /\ test.pat = "example" /\ test.beta = 5
  /\ test.calls = <<<<"updateColumn", 0>>, <<"updateColumn", 1>>, <<"solve", 1>>>>

\* C21 (as claimed). In the scenario the first two rows of H applied to y
\* give [5, 0]^T.
ExampleReproducesRhs ==
  ExampleRun =>
    /\ Near(RowOfHTimesY(0), 5 * HScale * YScale, 1)
    /\ Near(RowOfHTimesY(1), 0, 1)

\* C21 (corrected). In the scenario y is the least-squares solution of
\* min || H y - z || over all three rows of H, y = [17/6, -5/6]^T, so the
\* first two rows of H applied to y give [29/6, 1/3]^T.
ExampleLeastSquares ==
  ExampleRun =>
    /\ Near(6 * HScale * y.a[0][0], 17 * HScale * YScale, 6)
    /\ Near(6 * HScale * y.a[1][0], -5 * HScale * YScale, 6)
    /\ Near(6 * RowOfHTimesY(0), 29 * HScale * YScale, 6)
    /\ Near(3 * RowOfHTimesY(1), HScale * YScale, 3)

\* C21 witness: the scenario has run and y holds a solution.
ExampleSolved == ExampleRun /\ op.err = "none" /\ y.a[0][0] > 0 /\ y.a[1][0] < 0

\* ------------------------------------------------------------------ threads

\* Number of calls the two threads make together, and the maximum-iteration
\* count of the problem a thread owns.
ThreadCalls == 3

ThreadIters == 1

\* Two threads drive one ProjectedLeastSquaresSolver, each on a problem of
\* its own: thread 1 on the problem held in H, R, y, z, theCosines and
\* theSines, thread 2 on the problem held in test.other.
Threads == {1, 2}

\* ProjectedLeastSquaresSolver has no data member: the only state of the
\* solver object.
SolverFields == <<>>

\* The locals of every call in one place that the threads share.
FrameShared(t) == 1

\* Where the locals of a call made by thread t live: in the frame of the
\* call, on the stack of t.
Frame(t) == t

\* The calls a thread may make on a problem p: <<name, a, b>>.
ThreadCallsOn(p) ==
  {<<"updateColumn", k, k>> : k \in 0..(p.H.nc - 1)}
    \cup {<<"updateColumns", k, l>> : k \in 0..(p.H.nc - 1), l \in 0..(p.H.nc - 1)}
    \cup {<<"solve", k, k>> : k \in 0..(p.H.nc - 1)}

\* The problem p after the call c of the solver.
Invoke(p, c) ==
  LET build == CHOOSE b \in BuildsFor(p, c[3]) : TRUE
  IN CASE c[1] = "updateColumn" -> updateColumn(p, c[2], build).p
       [] c[1] = "updateColumns" -> updateColumns(p, c[2], c[3], build).p
       [] c[1] = "solve" -> solveGivens(p, c[2]).p

\* The problem p after the calls cs[i], cs[i+1], ... made one after another.
RECURSIVE Replay(_, _, _)
Replay(p, cs, i) ==
  IF i > Len(cs) THEN p ELSE Replay(Invoke(p, cs[i]), cs, i + 1)

\* A problem for n iterations whose H the caller filled and that was reset
\* with beta.
FilledProblem(n, pat, beta) ==
  LET p == NewProblem(n)
  IN reset([p EXCEPT !.H = Entries(p.H, [i \in 0..n |-> [j \in 0..(n - 1) |->
                                 IF i <= j + 1 THEN HEntry(pat, i, j) ELSE 0]])],
           beta)

\* The problem of thread t.
Instance(t) == IF t = 1 THEN Problem ELSE test.other

ThreadInit ==
  /\ H = FilledProblem(ThreadIters, "example", 5).H
  /\ R = FilledProblem(ThreadIters, "example", 5).R
  /\ y = FilledProblem(ThreadIters, "example", 5).y
  /\ z = FilledProblem(ThreadIters, "example", 5).z
  /\ theCosines = FilledProblem(ThreadIters, "example", 5).theCosines
  /\ theSines = FilledProblem(ThreadIters, "example", 5).theSines
  /\ test = [pc |-> "threads",
             other |-> FilledProblem(ThreadIters, "pythagorean", 3),
             start |-> [t \in Threads |->
                          IF t = 1 THEN FilledProblem(ThreadIters, "example", 5)
                          ELSE FilledProblem(ThreadIters, "pythagorean", 3)],
             calls |-> [t \in Threads |-> << >>],
             running |-> [t \in Threads |-> FALSE],
             locals |-> [f \in Threads |-> FilledProblem(ThreadIters, "example", 5)],
             solver |-> SolverFields,
             overlapped |-> FALSE]
  /\ op = Call("construct", ThreadIters, 0, 0, "none")
  /\ requested = ThreadIters
  /\ steps = 0

\* Thread t enters a call of the solver: the call reads the problem of t and
\* computes in its locals.
ThreadEnters(t) ==
  /\ test.pc = "threads" /\ ~test.running[t]
  /\ Len(test.calls[1]) + Len(test.calls[2]) < ThreadCalls
  /\ \E c \in ThreadCallsOn(Instance(t)) :
       /\ ColumnInside(Instance(t), c[2]) /\ ColumnInside(Instance(t), c[3])
       /\ test' = [test EXCEPT !.calls[t] = Append(@, c),
                               !.running[t] = TRUE,
                               !.locals[Frame(t)] = Invoke(Instance(t), c),
                               !.overlapped = @ \/ \E u \in Threads : test.running[u]]
       /\ op' = Call(c[1], c[2], c[3], t, "entered")
  /\ UNCHANGED <<H, R, y, z, theCosines, theSines, requested, steps>>

\* Thread t leaves its call: what the call computed is in the problem of t.
ThreadLeaves(t) ==
  /\ test.pc = "threads" /\ test.running[t]
  /\ IF t = 1
       THEN /\ SetProblem(test.locals[Frame(t)])
            /\ test' = [test EXCEPT !.running[t] = FALSE]
       ELSE /\ test' = [test EXCEPT !.running[t] = FALSE,
                                    !.other = test.locals[Frame(t)]]
            /\ UNCHANGED <<H, R, y, z, theCosines, theSines>>
  /\ op' = Call("return", 0, 0, t, "none")
  /\ UNCHANGED <<requested, steps>>

ThreadNext == \E t \in Threads : ThreadEnters(t) \/ ThreadLeaves(t)

ThreadSpec == ThreadInit /\ [][ThreadNext]_vars

\* C22. Whatever the interleaving of the calls of the two threads, a thread
\* that is not inside a call finds its problem as the calls it made so far
\* leave it when made one after another with no other thread running; the
\* solver object holds no state throughout.
ThreadsIsolated ==
  test.pc = "threads" =>
    /\ test.solver = SolverFields
    /\ \A t \in Threads :
         ~test.running[t] => Instance(t) = Replay(test.start[t], test.calls[t], 1)

\* C22 witness: the threads made all their calls, thread 1 two of them and
\* thread 2 one, at some time both were inside a call, thread 1 has a factor
\* and a solution and the problem of thread 2 is no longer as it started.
BothThreadsDone ==
  /\ test.pc = "threads" /\ test.overlapped
  /\ Len(test.calls[1]) + Len(test.calls[2]) = ThreadCalls
  /\ Len(test.calls[2]) = 1
  /\ \A t \in Threads : ~test.running[t] /\ Instance(t) # test.start[t]
  /\ ~IsZero(Instance(1).R) /\ ~IsZero(Instance(1).y)

\* ------------------------------------------------- updateColumnGivens, stepwise

\* The places of updateColumnGivens a call can be at: before "R_col.assign"
\* (copy), at the test of the loop over the stored rotations (stored), before
\* the two stores into theCosines and theSines (store), before step 4
\* (apply), before the _ROT of z (rhs); outside: no call is running.
StepPcs == {"outside", "copy", "stored", "store", "apply", "rhs"}

\* The control flow with the loop "for (int j = 0; j < curCol - 1; ++j)".
ControlOneShort(pc, j, curCol) ==
  CASE pc = "copy" -> [pc |-> "stored", j |-> 0]
    [] pc = "stored" /\ j < curCol - 1 -> [pc |-> "stored", j |-> j + 1]
    [] pc = "stored" /\ j >= curCol - 1 -> [pc |-> "store", j |-> j]
    [] pc = "store" -> [pc |-> "apply", j |-> j]
    [] pc = "apply" -> [pc |-> "rhs", j |-> j]
    [] pc = "rhs" -> [pc |-> "outside", j |-> j]

\* The control flow of updateColumnGivens: where a call at pc, with loop
\* index j, is after its next step.  The loop is
\* "for (int j = 0; j < curCol; ++j)"; computeGivensRotation follows it.
Control(pc, j, curCol) ==
  CASE pc = "copy" -> [pc |-> "stored", j |-> 0]
    [] pc = "stored" /\ j < curCol -> [pc |-> "stored", j |-> j + 1]
    [] pc = "stored" /\ j >= curCol -> [pc |-> "store", j |-> j]
    [] pc = "store" -> [pc |-> "apply", j |-> j]
    [] pc = "apply" -> [pc |-> "rhs", j |-> j]
    [] pc = "rhs" -> [pc |-> "outside", j |-> j]

\* The call's position after its next step.
Advance(t) ==
  [t EXCEPT !.pc = Control(t.pc, t.j, t.curCol).pc,
            !.j = Control(t.pc, t.j, t.curCol).j]

\* t with the event e added to what the call did so far.
Logged(t, e) == [t EXCEPT !.log = Append(@, e)]

StepInit ==
  \E n \in 1..MaxIters : \E pat \in Patterns :
    /\ H = FilledProblem(n, pat, 5).H
    /\ R = FilledProblem(n, pat, 5).R
    /\ y = FilledProblem(n, pat, 5).y
    /\ z = FilledProblem(n, pat, 5).z
    /\ theCosines = FilledProblem(n, pat, 5).theCosines
    /\ theSines = FilledProblem(n, pat, 5).theSines
    /\ op = Call("reset", 5, 0, 0, "none")
    /\ requested = n
    /\ steps = 0
    /\ test = [pc |-> "outside", curCol |-> 0, j |-> 0, log |-> << >>,
               rot |-> computeGivensRotation(0, 0),
               start |-> FilledProblem(n, pat, 5)]

\* solver.updateColumn (problem, curCol) is called.
StepCall ==
  /\ test.pc = "outside" /\ steps < MaxSteps
  /\ \E curCol \in 0..(H.nc - 1) :
       /\ ColumnInside(Problem, curCol) /\ RotationsInside(Problem, curCol)
       /\ test' = [test EXCEPT !.pc = "copy", !.curCol = curCol, !.j = 0,
                               !.log = << >>, !.start = Problem]
       /\ op' = Call("updateColumn", curCol, curCol, 0, "running")
  /\ steps' = steps + 1
  /\ UNCHANGED <<H, R, y, z, theCosines, theSines, requested>>

\* Step 1: R_col.assign (H_col)
StepCopy ==
  /\ test.pc = "copy"
  /\ R' = CopyColumn(H, R, test.curCol)
  /\ test' = Advance(test)
  /\ UNCHANGED <<H, y, z, theCosines, theSines, op, requested, steps>>

\* Step 2, one pass of the loop: theCosines[j] and theSines[j] are read and
\* _ROT acts on R_col(j,0), R_col(j+1,0).
StepApplyStored ==
  /\ test.pc = "stored" /\ Control(test.pc, test.j, test.curCol).pc = "stored"
  /\ R' = RotateRows(R, test.j, test.curCol, theCosines[test.j], theSines[test.j])
  /\ test' = Advance(Logged(test, <<"rot", test.j, test.j, test.j + 1>>))
  /\ UNCHANGED <<H, y, z, theCosines, theSines, op, requested, steps>>

\* Step 3, the loop being over: computeGivensRotation (R_col(curCol,0),
\* R_col(curCol+1,0), theCosine, theSine, result)
StepGenerate ==
  /\ test.pc = "stored" /\ Control(test.pc, test.j, test.curCol).pc = "store"
  /\ test' = [Advance(Logged(test, <<"gen", test.curCol, test.curCol, test.curCol + 1>>))
                EXCEPT !.rot = computeGivensRotation(R.a[test.curCol][test.curCol],
                                                     R.a[test.curCol + 1][test.curCol])]
  /\ UNCHANGED <<H, R, y, z, theCosines, theSines, op, requested, steps>>

\* theCosines[curCol] = theCosine; theSines[curCol] = theSine
StepStore ==
  /\ test.pc = "store"
  /\ theCosines' = Store(theCosines, test.curCol, test.rot.c)
  /\ theSines' = Store(theSines, test.curCol, test.rot.s)
  /\ test' = Advance(Logged(test, <<"write", test.curCol, test.curCol, test.curCol>>))
  /\ UNCHANGED <<H, R, y, z, op, requested, steps>>

\* Step 4: R_col(curCol,0) = result; R_col(curCol+1,0) = 0
StepApplyNew ==
  /\ test.pc = "apply"
  /\ R' = ApplyNewRotation(R, test.curCol, test.rot.r)
  /\ test' = Advance(test)
  /\ UNCHANGED <<H, y, z, theCosines, theSines, op, requested, steps>>

\* Step 5 and the return.
StepRotateRhs ==
  /\ test.pc = "rhs"
  /\ z' = RotateRhs(z, test.curCol, test.rot.c, test.rot.s, 0)
  /\ test' = Advance(test)
  /\ op' = Call("updateColumn", test.curCol, test.curCol,
                residualNorm(z', test.curCol), "none")
  /\ UNCHANGED <<H, R, y, theCosines, theSines, requested, steps>>

StepNext ==
  \/ StepCall
  \/ StepCopy
  \/ StepApplyStored
  \/ StepGenerate
  \/ StepStore
  \/ StepApplyNew
  \/ StepRotateRhs

StepSpec == StepInit /\ [][StepNext]_vars

\* A call that went through its steps leaves the problem as updateColumnGivens
\* does.
StepsAgree ==
  (test.pc = "outside" /\ op.name = "updateColumn") =>
    LET res == updateColumnGivens(test.start, test.curCol, [checked |-> TRUE, g |-> 0])
    IN Problem = res.p /\ op.ret = res.ret

IndexSafety ==
  [][(op'.name = "updateColumn" /\ 0 <= op'.a /\ op'.a < requested) =>
       /\ ColumnInside(Problem, op'.a)
       /\ RotationsInside(Problem, op'.a)
       /\ op'.err # "range_error"]_vars

\* ------------------------------------------------- frame of a column update

FreshInit ==
  \E n \in 0..MaxIters :
    /\ H = NewProblem(n).H
    /\ R = NewProblem(n).R
    /\ y = NewProblem(n).y
    /\ z = NewProblem(n).z
    /\ theCosines = NewProblem(n).theCosines
    /\ theSines = NewProblem(n).theSines
    /\ op = Call("construct", n, 0, 0, "none")
    /\ requested = n
    /\ steps = 0
    /\ test = [pc |-> "fresh", cols |-> << >>]

\* The caller fills the upper Hessenberg matrix.
FreshWriteH ==
  /\ test.pc = "fresh" /\ steps < MaxSteps
  /\ \E pat \in Patterns :
       /\ H' = [H EXCEPT !.a = [i \in 0..(H.nr - 1) |-> [j \in 0..(H.nc - 1) |->
                  IF i <= j + 1 THEN HEntry(pat, i, j) ELSE H.a[i][j]]]]
       /\ op' = Call("writeH", 0, 0, 0, "none")
  /\ steps' = steps + 1
  /\ UNCHANGED <<R, y, z, theCosines, theSines, requested, test>>

\* problem.reallocateAndReset (beta, maxNumIterations)
FreshReallocateAndReset ==
  /\ test.pc = "fresh" /\ steps < MaxSteps
  /\ \E beta \in Betas : \E m \in 0..MaxIters :
       LET res == reallocateAndReset(Problem, beta, m)
       IN /\ SetProblem(res.p)
          /\ op' = Call("reallocateAndReset", beta, m, 0, res.err)
          /\ requested' = IF res.err = "none" /\ m > requested THEN m ELSE requested
          /\ test' = [test EXCEPT !.cols = IF res.err = "none" THEN << >> ELSE @]
  /\ steps' = steps + 1

\* solver.updateColumn (problem, curCol)
FreshUpdateColumn ==
  /\ test.pc = "fresh" /\ steps < MaxSteps
  /\ \E curCol \in 0..(H.nc - 1) : \E build \in BuildsFor(Problem, curCol) :
       LET res == updateColumn(Problem, curCol, build)
       IN /\ ColumnInside(Problem, curCol)
          /\ SetProblem(res.p)
          /\ op' = Call("updateColumn", curCol, curCol, res.ret, res.err)
          /\ test' = [test EXCEPT !.cols = Append(@, IF res.err = "none"
                                                       THEN curCol ELSE -1)]
  /\ steps' = steps + 1
  /\ UNCHANGED requested

FreshNext ==
  \/ FreshWriteH
  \/ FreshReallocateAndReset
  \/ FreshUpdateColumn

FreshSpec == FreshInit /\ [][FreshNext]_vars

\* The columns 0, 1, ..., k, in this order.
UpTo(k) == [i \in 1..(k + 1) |-> i - 1]

\* C26. When the updateColumn calls made since the problem was last fresh
\* are those for the columns 0, 1, ..., k in this order, and all returned,
\* every entry of R below the diagonal in the columns 0 .. k is zero.
TriangularAfterOrderedUpdates ==
  (test.pc = "fresh" /\ test.cols # << >> /\ test.cols = UpTo(Len(test.cols) - 1)) =>
    \A j \in 0..(Len(test.cols) - 1) : \A i \in 0..(R.nr - 1) :
      i > j => R.a[i][j] = 0

\* C26 witness: since the problem was last fresh the columns 0 and 1 were
\* updated in order from an H with entries below the diagonal, and R has a
\* nonzero diagonal.
TwoColumnsTriangular ==
  /\ test.pc = "fresh" /\ test.cols = UpTo(1)
  /\ H.a[1][0] # 0 /\ H.a[2][1] # 0
  /\ R.a[0][0] # 0 /\ R.a[1][1] # 0 /\ R.a[0][1] # 0

\* ------------------------------------------------- rank under robustness 1

\* A call of solveUpperTriangularSystem under robustness 1 that returns.
RankDetecting ==
  op'.name = "solveUpperTriangularSystem" /\ op'.a = 1 /\ op'.err = "none"

\* Some _LATRS call of the loop over the columns of x left a zero scale
\* factor.
SomeZeroScale ==
  \E j \in 0..(y.nc - 1) : LATRS(CopyRhs(y, z), R, R.nc, j).scale = 0

\* C27 (as claimed). Under robustness 1 the rank returned is N less the
\* number of the columns j >= 1 whose diagonal entry is zero and whose part
\* above the diagonal has 1-norm zero, column 0 never being counted;
\* foundRankDeficiency is true whenever the rank is below N or a column solve
\* left a zero scale factor; the rank lies in 0 .. N.
RankExemptsFirstColumn ==
  [][RankDetecting =>
       LET N == R.nc
           flagged == {j \in 1..(N - 1) :
                         R.a[j][j] = 0 /\ OffDiagonalNorm(R, j, 0) = 0}
       IN /\ op'.ret[1] = N - Cardinality(flagged)
          /\ (op'.ret[1] < N \/ SomeZeroScale) => op'.ret[2]
          /\ 0 <= op'.ret[1] /\ op'.ret[1] <= N]_vars

\* C27. Under robustness 1 the rank returned is N less the number of the
\* columns j, column 0 included, whose diagonal entry is zero and whose part
\* above the diagonal has 1-norm zero in cnorm (which holds zeros when x has
\* no column, _LATRS never being called); column 0, which has nothing above
\* its diagonal, counts whenever R(0,0) is zero.  foundRankDeficiency is true
\* whenever the rank is below N or a column solve left a zero scale factor;
\* the rank lies in 0 .. N.
RankCountsZeroColumns ==
  [][RankDetecting =>
       LET N == R.nc
           flagged == {j \in 0..(N - 1) :
                         R.a[j][j] = 0 /\ (y.nc = 0 \/ OffDiagonalNorm(R, j, 0) = 0)}
       IN /\ op'.ret[1] = N - Cardinality(flagged)
          /\ (op'.ret[1] < N \/ SomeZeroScale) => op'.ret[2]
          /\ 0 <= op'.ret[1] /\ op'.ret[1] <= N]_vars

\* C27 witness: a call under robustness 1 on an R whose entry R(0,0) is zero
\* and an x with a column returned a rank below N and reported the
\* deficiency.
FirstColumnFlagged ==
  /\ op.name = "solveUpperTriangularSystem" /\ op.a = 1 /\ op.err = "none"
  /\ R.nc >= 1 /\ R.a[0][0] = 0 /\ y.nc >= 1
  /\ op.ret = <<R.nc - 1, TRUE>>

\* ------------------------------------------------ makeRandomProblem, stepwise

\* "const int numTrials = 1000"
numTrials == 1000

\* What STM::random () can return, scaled to integers: zero among them.
Draws == {-3, 0, 5}

\* H.random (): every entry of H drawn, the entries below the subdiagonal
\* included.
random(A, pat) ==
  Entries(A, [i \in 0..(A.nr - 1) |-> [j \in 0..(A.nc - 1) |->
                IF i <= j + 1 THEN HEntry(pat, i, j) ELSE 1 + HEntry(pat, j, i)]])

\* "for j: for (int i = j+2; i < H.numRows(); ++i) H(i,j) = zero"
ZeroBelowSubdiagonal(A) ==
  Entries(A, [i \in 0..(A.nr - 1) |-> [j \in 0..(A.nc - 1) |->
                IF i >= j + 2 THEN 0 ELSE A.a[i][j]]])

\* A loop that draws on until the trials are used up.
KeepDrawingToTheEnd(trial, z_init) == trial < numTrials

\* The test of the loop: "trial < numTrials && z_init == STM::zero()".
KeepDrawing(trial, z_init) == trial < numTrials /\ z_init = 0

\* test.nonzero counts the draws that were not zero.
RandomInit ==
  \E numCols \in 1..MaxIters :
    /\ H = Matrix(numCols + 1, numCols)
    /\ z = Matrix(numCols + 1, 1)
    /\ R = Matrix(numCols + 1, numCols)
    /\ y = Matrix(numCols + 1, 1)
    /\ theCosines = Array(numCols)
    /\ theSines = Array(numCols)
    /\ test = [pc |-> "random", trial |-> 0, z_init |-> 0, nonzero |-> 0]
    /\ op = Call("makeRandomProblem", numCols, 0, 0, "running")
    /\ requested = 0
    /\ steps = 0

\* H.random () and the loops that make H upper Hessenberg.
RandomHessenberg ==
  /\ test.pc = "random"
  /\ \E pat \in Patterns : H' = ZeroBelowSubdiagonal(random(H, pat))
  /\ test' = [test EXCEPT !.pc = "draw"]
  /\ UNCHANGED <<R, y, z, theCosines, theSines, op, requested, steps>>

\* One pass of the loop: z_init = STM::random ()
RandomDraw ==
  /\ test.pc = "draw" /\ KeepDrawing(test.trial, test.z_init)
  /\ \E d \in Draws :
       test' = [test EXCEPT !.z_init = d, !.trial = @ + 1,
                            !.nonzero = IF d # 0 THEN @ + 1 ELSE @]
  /\ UNCHANGED <<H, R, y, z, theCosines, theSines, op, requested, steps>>

\* After the loop: the TEST_FOR_EXCEPTION, then z(0,0) = z_first.
RandomFirstEntry ==
  /\ test.pc = "draw" /\ ~KeepDrawing(test.trial, test.z_init)
  /\ IF test.z_init = 0
       THEN /\ test' = [test EXCEPT !.pc = "thrown"]
            /\ op' = Call("makeRandomProblem", op.a, 0, 0, "runtime_error")
            /\ z' = z
       ELSE /\ test' = [test EXCEPT !.pc = "made"]
            /\ op' = Call("makeRandomProblem", op.a, 0, 0, "none")
            /\ z' = Put(z, 0, 0, IF test.z_init < 0 THEN -test.z_init
                                 ELSE test.z_init)
  /\ UNCHANGED <<H, R, y, theCosines, theSines, requested, steps>>

RandomNext ==
  \/ RandomHessenberg
  \/ RandomDraw
  \/ RandomFirstEntry

RandomSpec == RandomInit /\ [][RandomNext]_vars

\* C28. makeRandomProblem draws at most numTrials = 1000 times and at most
\* one draw is not zero, the last one; it throws a runtime error exactly when
\* it made 1000 draws and all were zero; when it returns, z(0,0) is the
\* magnitude of the last draw and positive, and H is zero below its first
\* subdiagonal.
RandomProblemMade ==
  test.pc \in {"draw", "made", "thrown"} =>
    /\ test.trial <= numTrials
    /\ test.nonzero <= 1
    /\ (test.nonzero = 1) = (test.z_init # 0)
    /\ (test.pc = "thrown") = (op.err = "runtime_error")
    /\ test.pc = "thrown" => test.trial = numTrials /\ test.nonzero = 0
    /\ (test.z_init # 0 \/ test.trial = numTrials) => ~ENABLED RandomDraw
    /\ test.pc = "made" =>
         /\ test.nonzero = 1 /\ op.err = "none"
         /\ z.a[0][0] > 0 /\ z.a[0][0] = Abs(test.z_init)
    /\ \A i \in 0..(H.nr - 1) : \A j \in 0..(H.nc - 1) :
         i >= j + 2 => H.a[i][j] = 0

\* C28 witness: the first 999 draws were zero, the 1000th was negative, and
\* makeRandomProblem returned with its magnitude in z(0,0) and an H with
\* entries on the subdiagonal.
LastTrialSucceeded ==
  /\ test.pc = "made" /\ test.trial = numTrials /\ test.z_init < 0
  /\ z.a[0][0] = -test.z_init /\ H.nc >= 2 /\ H.a[1][0] # 0 /\ H.a[2][1] # 0

\* ---------------------------------------------------- verdict of the self-test

\* The values of solutionErrorBound, givensSolutionError and
\* blockGivensSolutionError that testUpdateColumn can have computed, in units
\* of the machine precision: finite ones, and NonFinite for a NaN or an
\* infinity.
Errors == {NonFinite, 0, 1, 2, 4}

\* STM::isnaninf
isnaninf(x) == x = NonFinite

\* The return statements with the tests of the block Givens error left out.
testUpdateColumnVerdictGivensOnly(solutionErrorBound, givensSolutionError, blockGivensSolutionError, testBlockGivens) ==
  IF isnaninf(solutionErrorBound) THEN FALSE
  ELSE IF isnaninf(givensSolutionError) THEN FALSE
  ELSE IF givensSolutionError > solutionErrorBound THEN FALSE
  ELSE TRUE

\* The return statements of testUpdateColumn.
testUpdateColumnVerdict(solutionErrorBound, givensSolutionError, blockGivensSolutionError, testBlockGivens) ==
  IF isnaninf(solutionErrorBound) THEN FALSE
  ELSE IF isnaninf(givensSolutionError) THEN FALSE
  ELSE IF givensSolutionError > solutionErrorBound THEN FALSE
  ELSE IF testBlockGivens
    THEN IF isnaninf(blockGivensSolutionError) THEN FALSE
         ELSE IF blockGivensSolutionError > solutionErrorBound THEN FALSE
         ELSE TRUE
    ELSE TRUE

\* testUpdateColumn after it computed the errors and the bound;
\* blockGivensSolutionError is zero when the block test was not asked for.
VerdictInit ==
  \E numCols \in 1..MaxIters : \E testBlockGivens \in BOOLEAN :
  \E bound \in Errors : \E givens \in Errors :
  \E block \in (IF testBlockGivens THEN Errors ELSE {0}) :
    /\ H = Matrix(numCols + 1, numCols)
    /\ R = Matrix(numCols + 1, numCols)
    /\ y = Matrix(numCols + 1, 1)
    /\ z = Matrix(numCols + 1, 1)
    /\ theCosines = Array(numCols)
    /\ theSines = Array(numCols)
    /\ test = [pc |-> "errors", testBlockGivens |-> testBlockGivens,
               solutionErrorBound |-> bound,
               givensSolutionError |-> givens,
               blockGivensSolutionError |-> block]
    /\ op = Call("testUpdateColumn", numCols, 0, FALSE, "running")
    /\ requested = 0
    /\ steps = 0

\* testUpdateColumn returns.
Verdict ==
  /\ test.pc = "errors"
  /\ test' = [test EXCEPT !.pc = "returned"]
  /\ op' = Call("testUpdateColumn", op.a, 0,
                testUpdateColumnVerdict(test.solutionErrorBound,
                                        test.givensSolutionError,
                                        test.blockGivensSolutionError,
                                        test.testBlockGivens),
                "none")
  /\ UNCHANGED <<H, R, y, z, theCosines, theSines, requested, steps>>

VerdictNext == Verdict

VerdictSpec == VerdictInit /\ [][VerdictNext]_vars

\* x is neither a NaN nor an infinity.
Finite(x) == x # NonFinite

\* C29. testUpdateColumn returns true exactly when the bound is finite, the
\* error of the Givens solution is finite and at most the bound and, the block
\* test being asked for, the error of the block Givens solution is finite and
\* at most the bound.
VerdictExact ==
  test.pc = "returned" =>
    (op.ret = TRUE) =
      (/\ Finite(test.solutionErrorBound)
       /\ Finite(test.givensSolutionError)
       /\ test.givensSolutionError <= test.solutionErrorBound
       /\ test.testBlockGivens =>
            /\ Finite(test.blockGivensSolutionError)
            /\ test.blockGivensSolutionError <= test.solutionErrorBound)

\* C29 witness: with the block test asked for, both errors positive, finite
\* and at most the bound, one of them equal to it, testUpdateColumn returned
\* true.
BothErrorsWithinBound ==
  /\ test.pc = "returned" /\ test.testBlockGivens /\ op.ret = TRUE
  /\ Finite(test.solutionErrorBound)
  /\ 0 < test.givensSolutionError
  /\ test.givensSolutionError < test.blockGivensSolutionError
  /\ test.blockGivensSolutionError = test.solutionErrorBound

\* ------------------------------------------------ panels of the self-test

\* Largest numCols of the block test.
PanelCols == 7

\* std::min
min(a, b) == IF a < b THEN a ELSE b

\* Panels of one column.
panelWidthOne(numCols) == 1

\* "const int panelWidth = std::min (3, numCols)"
panelWidth(numCols) == min(3, numCols)

\* The columns that the loop of updateColumnsGivens (startCol, endCol) hands
\* to updateColumnGivens, in its order.
ColumnsOf(startCol, endCol) ==
  [i \in 1..(endCol - startCol + 1) |-> startCol + i - 1]

\* testUpdateColumn (out, numCols, testBlockGivens = true) after
\* makeRandomProblem (H, z) and z_blockGivens.assign (z): the problem of the
\* block test is held in R, y, z, theCosines, theSines.  test.panels lists
\* the panels handed to updateColumnsGivens, test.cols the columns updated.
PanelInit ==
  \E numCols \in 1..PanelCols : \E pat \in Patterns : \E z_first \in Firsts :
    LET made == makeRandomProblem(Matrix(numCols + 1, numCols),
                                  Matrix(numCols + 1, 1), pat, z_first)
    IN /\ H = made.H
       /\ R = Matrix(numCols + 1, numCols)
       /\ y = Matrix(numCols + 1, 1)
       /\ z = assign(Matrix(numCols + 1, 1), made.z)
       /\ theCosines = Array(numCols)
       /\ theSines = Array(numCols)
       /\ test = [pc |-> "panels", numCols |-> numCols, startCol |-> 0,
                  panels |-> << >>, cols |-> << >>]
       /\ op = Call("makeRandomProblem", numCols, 0, 0, "none")
       /\ requested = 0
       /\ steps = 0

\* One pass of "for (int startCol = 0; startCol < numCols;
\* startCol += panelWidth)".
PanelUpdate ==
  /\ test.pc = "panels" /\ test.startCol < test.numCols
  /\ LET startCol == test.startCol
         endCol == min(startCol + panelWidth(test.numCols) - 1, test.numCols - 1)
         res == updateColumnsGivens(Problem, startCol, endCol,
                                    [checked |-> TRUE, g |-> 0])
     IN /\ SetProblem(res.p)
        /\ op' = Call("updateColumnsGivens", startCol, endCol, res.ret, res.err)
        /\ test' = [test EXCEPT
                      !.startCol = startCol + panelWidth(test.numCols),
                      !.panels = Append(@, <<startCol, endCol>>),
                      !.cols = IF res.err = "none"
                                 THEN @ \o ColumnsOf(startCol, endCol) ELSE @]
  /\ UNCHANGED <<requested, steps>>

\* After the loop: solveGivens (y_blockGivens, R_blockGivens, z_blockGivens,
\* numCols-1)
PanelSolve ==
  /\ test.pc = "panels" /\ ~(test.startCol < test.numCols)
  /\ LET res == solveGivens(Problem, test.numCols - 1)
     IN /\ SetProblem(res.p)
        /\ op' = Call("solveGivens", test.numCols - 1, 0, res.ret, res.err)
  /\ test' = [test EXCEPT !.pc = "done"]
  /\ UNCHANGED <<requested, steps>>

PanelNext ==
  \/ PanelUpdate
  \/ PanelSolve

PanelSpec == PanelInit /\ [][PanelNext]_vars

\* C30. The panels [startCol, endCol] handed to updateColumnsGivens so far:
\* each has startCol <= endCol <= numCols - 1; the first starts at column 0
\* and each next one at the column after the end of the one before; each is
\* min(3, numCols) wide, the one that ends at numCols - 1 at most that wide;
\* the columns updated are 0, 1, ... up to the end of the last panel, each
\* once and in this order; when the loop is over that end is numCols - 1.
PanelsCoverColumns ==
  test.pc \in {"panels", "done"} =>
    LET n == test.numCols
        w == IF n < 3 THEN n ELSE 3
        ps == test.panels
        last == IF ps = << >> THEN -1 ELSE ps[Len(ps)][2]
    IN /\ \A i \in 1..Len(ps) :
            /\ ps[i][1] <= ps[i][2] /\ ps[i][2] <= n - 1
            /\ ps[i][1] = (IF i = 1 THEN 0 ELSE ps[i - 1][2] + 1)
            /\ \/ ps[i][2] - ps[i][1] + 1 = w
               \/ ps[i][2] = n - 1 /\ ps[i][2] - ps[i][1] + 1 <= w
       /\ Len(test.cols) = last + 1
       /\ \A i \in 1..Len(test.cols) : test.cols[i] = i - 1
       /\ test.pc = "done" => last = n - 1

\* C30 witness: the block test is over after three panels or more, the last
\* one narrower than three columns, on a problem with a nonzero factor.
NarrowLastPanel ==
  /\ test.pc = "done" /\ Len(test.panels) >= 3
  /\ test.panels[Len(test.panels)][2] - test.panels[Len(test.panels)][1] < 2
  /\ R.a[0][0] # 0 /\ R.a[test.numCols - 1][test.numCols - 1] # 0

====
